---------------------------- MODULE Spec2Model ----------------------------
(***************************************************************************)
(* A model of ai-guard's core: the PII vault (vault.js, patterns.js) and   *)
(* the JSON repair engine (repair.js).                                     *)
(*                                                                         *)
(* A JavaScript string is a sequence of one-character strings.  Offsets    *)
(* into a string are 0-based as in the source: offset i lies between       *)
(* s[i] and s[i+1] of the TLA+ sequence.                                   *)
(***************************************************************************)
EXTENDS Integers, Sequences, FiniteSets, TLC

(***************************************************************************)
(* Character classes of the regular expressions in the source.             *)
(***************************************************************************)
Digit == {"0", "1", "2", "3", "4", "5", "6", "7", "8", "9"}

Upper == {"A", "B", "C", "D", "E", "F", "G", "H", "I", "J", "K", "L", "M",
          "N", "O", "P", "Q", "R", "S", "T", "U", "V", "W", "X", "Y", "Z"}

Lower == {"a", "b", "c", "d", "e", "f", "g", "h", "i", "j", "k", "l", "m",
          "n", "o", "p", "q", "r", "s", "t", "u", "v", "w", "x", "y", "z"}

Letter == Upper \cup Lower

\* \w of a JavaScript regular expression
WordChar == Letter \cup Digit \cup {"_"}

\* \s of a JavaScript regular expression, and the characters trim() removes
Space == {" ", "\n", "\t", "\r"}

(***************************************************************************)
(* String helpers: the String.prototype methods the source calls.          *)
(***************************************************************************)
\* s.slice(from) for a 0-based offset from
Drop(s, from) == SubSeq(s, from + 1, Len(s))

\* s.slice(0, to) for a 0-based offset to
Take(s, to) == SubSeq(s, 1, to)

\* whether pat occurs in s at 0-based offset i
OccursAt(s, pat, i) ==
    /\ i + Len(pat) <= Len(s)
    /\ \A j \in 1..Len(pat) : s[i + j] = pat[j]

\* s.includes(pat)
Occurs(pat, s) == \E i \in 0..Len(s) : OccursAt(s, pat, i)

RECURSIVE TrimStart(_)
TrimStart(s) ==
    IF s # <<>> /\ Head(s) \in Space THEN TrimStart(Tail(s)) ELSE s

RECURSIVE TrimEnd(_)
TrimEnd(s) ==
    IF s # <<>> /\ s[Len(s)] \in Space THEN TrimEnd(Take(s, Len(s) - 1)) ELSE s

\* s.trim()
Trim(s) == TrimEnd(TrimStart(s))

RECURSIVE SplitJoinFrom(_, _, _, _)
SplitJoinFrom(s, value, tag, i) ==
    IF i >= Len(s) THEN <<>>
    ELSE IF OccursAt(s, value, i)
         THEN tag \o SplitJoinFrom(s, value, tag, i + Len(value))
         ELSE <<s[i + 1]>> \o SplitJoinFrom(s, value, tag, i + 1)

\* s.split(value).join(tag) for a non-empty value: every occurrence of value,
\* found left to right without overlap, is replaced by tag
SplitJoin(s, value, tag) == SplitJoinFrom(s, value, tag, 0)

RECURSIVE Concat(_)
\* the concatenation of a sequence of strings
Concat(ss) == IF ss = <<>> THEN <<>> ELSE Head(ss) \o Concat(Tail(ss))

RECURSIVE DigitsOf(_)
\* the decimal digits of a natural number, as a template literal `${n}` prints it
DigitsOf(n) ==
    LET d == <<"0", "1", "2", "3", "4", "5", "6", "7", "8", "9">>[(n % 10) + 1]
    IN  IF n < 10 THEN <<d>> ELSE DigitsOf(n \div 10) \o <<d>>

(***************************************************************************)
(* Regular expressions.  A pattern is a tree:                              *)
(*   <<"set", S>>          one character of the class S                    *)
(*   <<"cat", <<r..>>>>    r1 r2 ...                                       *)
(*   <<"alt", <<r..>>>>    r1|r2|...   (alternatives tried left to right)  *)
(*   <<"rep", r, lo, hi>>  r{lo,hi}, greedy; hi = -1 is unbounded          *)
(*   <<"lazy", r, lo, hi>> r{lo,hi}?, the lazy repetition                  *)
(*   <<"wb">>              \b                                              *)
(*   <<"nlb", S>>          (?<!c) for the class S                          *)
(*   <<"nla", S>>          (?!c) for the class S                           *)
(*   <<"bos">>, <<"eos">>  ^ and $ (without the m flag)                    *)
(* Ends(r, s, i) lists the offsets at which a match of r that starts at    *)
(* offset i can end, in the order a backtracking matcher tries them; the   *)
(* match the engine reports is the first one.                              *)
(***************************************************************************)
Chr(c) == <<"set", {c}>>
Opt(r) == <<"rep", r, 0, 1>>
Plus(r) == <<"rep", r, 1, -1>>
Star(r) == <<"rep", r, 0, -1>>
Times(r, n) == <<"rep", r, n, n>>
Lazy(r) == <<"lazy", r, 0, -1>>
Cat(rs) == <<"cat", rs>>
Alt(rs) == <<"alt", rs>>
\* a literal string, each character matching itself
Lit(str) == <<"cat", [j \in 1..Len(str) |-> Chr(str[j])]>>

IsWordAt(s, j) == j >= 1 /\ j <= Len(s) /\ s[j] \in WordChar

\* the ends of a repetition of one character of the class S, which takes
\* lo to hi characters of the run of such characters that starts at offset
\* i: the longest first, or the shortest first if the repetition is lazy
EndsRun(S, lo, hi, s, i, lazy) ==
    LET most == IF hi # -1 /\ hi < Len(s) - i THEN hi ELSE Len(s) - i
        others == {j \in 1..most : s[i + j] \notin S}
        run == IF others = {} THEN most
               ELSE (CHOOSE j \in others : \A h \in others : j <= h) - 1
    IN  [k \in 1..(run - lo + 1) |-> IF lazy THEN i + lo + k - 1 ELSE i + run - k + 1]

RECURSIVE Ends(_, _, _)
RECURSIVE EndsCat(_, _, _, _)
RECURSIVE EndsCatEach(_, _, _, _, _)
RECURSIVE EndsAlt(_, _, _, _)
RECURSIVE EndsRep(_, _, _, _, _, _)
RECURSIVE EndsRepEach(_, _, _, _, _, _, _, _)
RECURSIVE EndsLazy(_, _, _, _, _, _)
RECURSIVE EndsLazyEach(_, _, _, _, _, _, _, _)

Ends(r, s, i) ==
    CASE r[1] = "set" -> IF i < Len(s) /\ s[i + 1] \in r[2] THEN <<i + 1>> ELSE <<>>
      [] r[1] = "cat" -> EndsCat(r[2], 1, s, i)
      [] r[1] = "alt" -> EndsAlt(r[2], 1, s, i)
      [] r[1] = "rep" -> IF r[2][1] = "set" THEN EndsRun(r[2][2], r[3], r[4], s, i, FALSE)
                         ELSE EndsRep(r[2], r[3], r[4], s, i, 0)
      [] r[1] = "lazy" -> IF r[2][1] = "set" THEN EndsRun(r[2][2], r[3], r[4], s, i, TRUE)
                          ELSE EndsLazy(r[2], r[3], r[4], s, i, 0)
      [] r[1] = "wb"  -> IF IsWordAt(s, i) # IsWordAt(s, i + 1) THEN <<i>> ELSE <<>>
      [] r[1] = "nlb" -> IF i >= 1 /\ s[i] \in r[2] THEN <<>> ELSE <<i>>
      [] r[1] = "nla" -> IF i < Len(s) /\ s[i + 1] \in r[2] THEN <<>> ELSE <<i>>
      [] r[1] = "bos" -> IF i = 0 THEN <<i>> ELSE <<>>
      [] r[1] = "eos" -> IF i = Len(s) THEN <<i>> ELSE <<>>

EndsCat(rs, j, s, i) ==
    IF j > Len(rs) THEN <<i>>
    ELSE EndsCatEach(Ends(rs[j], s, i), 1, rs, j, s)

EndsCatEach(es, k, rs, j, s) ==
    IF k > Len(es) THEN <<>>
    ELSE EndsCat(rs, j + 1, s, es[k]) \o EndsCatEach(es, k + 1, rs, j, s)

EndsAlt(rs, j, s, i) ==
    IF j > Len(rs) THEN <<>>
    ELSE Ends(rs[j], s, i) \o EndsAlt(rs, j + 1, s, i)

EndsRep(r, lo, hi, s, i, n) ==
    LET more == IF hi = -1 \/ n < hi
                THEN EndsRepEach(Ends(r, s, i), 1, r, lo, hi, s, i, n)
                ELSE <<>>
    IN  IF n >= lo THEN more \o <<i>> ELSE more

\* an iteration that consumes nothing ends the repetition
EndsRepEach(es, k, r, lo, hi, s, i, n) ==
    IF k > Len(es) THEN <<>>
    ELSE (IF es[k] > i THEN EndsRep(r, lo, hi, s, es[k], n + 1) ELSE <<>>)
         \o EndsRepEach(es, k + 1, r, lo, hi, s, i, n)

\* a lazy repetition tries to stop before it tries one more iteration
EndsLazy(r, lo, hi, s, i, n) ==
    LET more == IF hi = -1 \/ n < hi
                THEN EndsLazyEach(Ends(r, s, i), 1, r, lo, hi, s, i, n)
                ELSE <<>>
    IN  IF n >= lo THEN <<i>> \o more ELSE more

EndsLazyEach(es, k, r, lo, hi, s, i, n) ==
    IF k > Len(es) THEN <<>>
    ELSE (IF es[k] > i THEN EndsLazy(r, lo, hi, s, es[k], n + 1) ELSE <<>>)
         \o EndsLazyEach(es, k + 1, r, lo, hi, s, i, n)

RECURSIVE Nullable(_)
\* whether r can match without consuming a character
Nullable(r) ==
    CASE r[1] = "set" -> FALSE
      [] r[1] = "cat" -> \A j \in 1..Len(r[2]) : Nullable(r[2][j])
      [] r[1] = "alt" -> \E j \in 1..Len(r[2]) : Nullable(r[2][j])
      [] r[1] \in {"rep", "lazy"} -> r[3] = 0 \/ Nullable(r[2])
      [] OTHER -> TRUE

RECURSIVE FirstChars(_)
\* the characters a non-empty match of r can start with
FirstChars(r) ==
    CASE r[1] = "set" -> r[2]
      [] r[1] = "cat" ->
            UNION {FirstChars(r[2][j]) :
                     j \in {j \in 1..Len(r[2]) : \A h \in 1..(j - 1) : Nullable(r[2][h])}}
      [] r[1] = "alt" -> UNION {FirstChars(r[2][j]) : j \in 1..Len(r[2])}
      [] r[1] \in {"rep", "lazy"} -> FirstChars(r[2])
      [] OTHER -> {}

RECURSIVE MatchAllFrom(_, _, _, _)
\* an offset whose character cannot start a match is passed over at once;
\* first is FirstChars(re), or {} for a pattern that can match the empty string
MatchAllFrom(re, first, s, pos) ==
    IF pos > Len(s) THEN <<>>
    ELSE IF first # {} /\ (pos = Len(s) \/ s[pos + 1] \notin first)
    THEN MatchAllFrom(re, first, s, pos + 1)
    ELSE LET es == Ends(re, s, pos)
         IN  IF es = <<>> THEN MatchAllFrom(re, first, s, pos + 1)
             ELSE <<[start |-> pos, end |-> es[1]]>>
                  \o MatchAllFrom(re, first, s, IF es[1] = pos THEN pos + 1 ELSE es[1])

\* s.matchAll(re) for a global pattern: the leftmost matches, without overlap,
\* as spans [start, end) of 0-based offsets
MatchAll(re, s) ==
    MatchAllFrom(re, IF Nullable(re) THEN {} ELSE FirstChars(re), s, 0)

\* match[0] of a span
Matched(s, m) == SubSeq(s, m.start + 1, m.end)

RECURSIVE ReplaceSpans(_, _, _, _, _)
ReplaceSpans(s, ms, k, pos, by) ==
    IF k > Len(ms) THEN Drop(s, pos)
    ELSE SubSeq(s, pos + 1, ms[k].start) \o by
         \o ReplaceSpans(s, ms, k + 1, ms[k].end, by)

\* s.replace(re, by) for a global pattern and a replacement without $ patterns
ReplaceAll(s, re, by) == ReplaceSpans(s, MatchAll(re, s), 1, 0, by)

RECURSIVE MatchFirstFrom(_, _, _, _)
MatchFirstFrom(re, first, s, pos) ==
    IF pos > Len(s) THEN <<>>
    ELSE IF first # {} /\ (pos = Len(s) \/ s[pos + 1] \notin first)
    THEN MatchFirstFrom(re, first, s, pos + 1)
    ELSE LET es == Ends(re, s, pos)
         IN  IF es = <<>> THEN MatchFirstFrom(re, first, s, pos + 1)
             ELSE <<[start |-> pos, end |-> es[1]]>>

\* s.match(re) for a pattern without the g flag: the leftmost match, as a
\* sequence of at most one span
MatchFirst(re, s) ==
    MatchFirstFrom(re, IF Nullable(re) THEN {} ELSE FirstChars(re), s, 0)

\* s.replace(re, by) for a pattern without the g flag
ReplaceFirst(s, re, by) == ReplaceSpans(s, MatchFirst(re, s), 1, 0, by)

(***************************************************************************)
(* patterns.js                                                             *)
(***************************************************************************)
\* (?:25[0-5]|2[0-4]\d|[01]?\d\d?)
Octet ==
    Alt(<< Cat(<<Chr("2"), Chr("5"), <<"set", {"0", "1", "2", "3", "4", "5"}>>>>),
           Cat(<<Chr("2"), <<"set", {"0", "1", "2", "3", "4"}>>, <<"set", Digit>>>>),
           Cat(<<Opt(<<"set", {"0", "1"}>>), <<"set", Digit>>, Opt(<<"set", Digit>>)>>) >>)

\* /\b(?:(?:25[0-5]|2[0-4]\d|[01]?\d\d?)\.){3}(?:25[0-5]|2[0-4]\d|[01]?\d\d?)\b/g
IPV4_RE ==
    Cat(<< <<"wb">>, Times(Cat(<<Octet, Chr(".")>>), 3), Octet, <<"wb">> >>)

\* /\b(?:\d{4}[-\s]?){3}\d{1,4}\b/g
CREDIT_CARD_RE ==
    Cat(<< <<"wb">>,
           Times(Cat(<<Times(<<"set", Digit>>, 4), Opt(<<"set", {"-"} \cup Space>>)>>), 3),
           <<"rep", <<"set", Digit>>, 1, 4>>,
           <<"wb">> >>)

\* /\b[A-Za-z0-9._%+-]+@[A-Za-z0-9.-]+\.[A-Za-z]{2,}\b/g
EMAIL_RE ==
    Cat(<< <<"wb">>,
           Plus(<<"set", Letter \cup Digit \cup {".", "_", "%", "+", "-"}>>),
           Chr("@"),
           Plus(<<"set", Letter \cup Digit \cup {".", "-"}>>),
           Chr("."),
           <<"rep", <<"set", Letter>>, 2, -1>>,
           <<"wb">> >>)

\* /(?<!\.)(?<!\d)\+?1?[-.\s]?\(?[0-9]{3}\)?[-.\s]?[0-9]{3}[-.\s]?[0-9]{4}(?!\.)/g
PHONE_RE ==
    LET sep == Opt(<<"set", {"-", "."} \cup Space>>)
    IN  Cat(<< <<"nlb", {"."}>>, <<"nlb", Digit>>,
               Opt(Chr("+")), Opt(Chr("1")), sep,
               Opt(Chr("(")), Times(<<"set", Digit>>, 3), Opt(Chr(")")), sep,
               Times(<<"set", Digit>>, 3), sep,
               Times(<<"set", Digit>>, 4),
               <<"nla", {"."}>> >>)

\* a variant of the order with the general phone pattern first
PATTERNS_PHONE_FIRST ==
    << <<"PHONE", PHONE_RE>>,
       <<"IPV4", IPV4_RE>>,
       <<"CREDIT_CARD", CREDIT_CARD_RE>>,
       <<"EMAIL", EMAIL_RE>> >>

\* the ordered (type, pattern) pairs the vault walks
PATTERNS_ORDERED ==
    << <<"IPV4", IPV4_RE>>,
       <<"CREDIT_CARD", CREDIT_CARD_RE>>,
       <<"EMAIL", EMAIL_RE>>,
       <<"PHONE", PHONE_RE>> >>

Types == {"EMAIL", "PHONE", "CREDIT_CARD", "IPV4"}

\* the tag prefix of each type, as a string
TAG_PREFIXES ==
    [ty \in Types |->
        CASE ty = "EMAIL" -> <<"E", "M", "A", "I", "L">>
          [] ty = "PHONE" -> <<"P", "H", "O", "N", "E">>
          [] ty = "CREDIT_CARD" -> <<"C", "R", "E", "D", "I", "T", "_", "C", "A", "R", "D">>
          [] ty = "IPV4" -> <<"I", "P", "V", "4">>]

(***************************************************************************)
(* vault.js: class PIIVault.  A Map is the sequence of its <<key, value>>  *)
(* entries in insertion order.  A PIIVault is the record of its fields     *)
(* vault, reverseMap and counters.                                         *)
(***************************************************************************)
MapHas(m, key) == \E j \in 1..Len(m) : m[j][1] = key

MapGet(m, key) == m[CHOOSE j \in 1..Len(m) : m[j][1] = key][2]

MapSet(m, key, val) ==
    IF MapHas(m, key)
    THEN [j \in 1..Len(m) |-> IF m[j][1] = key THEN <<key, val>> ELSE m[j]]
    ELSE Append(m, <<key, val>>)

MapKeys(m) == [j \in 1..Len(m) |-> m[j][1]]

\* new PIIVault()
NewVault ==
    [vault |-> <<>>, reverseMap |-> <<>>, counters |-> [ty \in Types |-> 0]]

\* `<${prefix}_${this.counters[type]}>`
MakeTag(prefix, n) == <<"<">> \o prefix \o <<"_">> \o DigitsOf(n) \o <<">">>

\* a variant that mints a token without looking the value up in reverseMap
MaskValueAlwaysMint(st, type, value) ==
    LET n == st.counters[type] + 1
        tag == MakeTag(TAG_PREFIXES[type], n)
    IN  [vault |-> MapSet(st.vault, tag, value),
         reverseMap |-> MapSet(st.reverseMap, value, tag),
         counters |-> [st.counters EXCEPT ![type] = n],
         maskedText |-> SplitJoin(st.maskedText, value, tag)]

\* a variant that mints a token without advancing the counter of its type
MaskValueNoCount(st, type, value) ==
    IF MapHas(st.reverseMap, value)
    THEN [st EXCEPT !.maskedText =
              SplitJoin(st.maskedText, value, MapGet(st.reverseMap, value))]
    ELSE LET tag == MakeTag(TAG_PREFIXES[type], st.counters[type] + 1)
         IN  [vault |-> MapSet(st.vault, tag, value),
              reverseMap |-> MapSet(st.reverseMap, value, tag),
              counters |-> st.counters,
              maskedText |-> SplitJoin(st.maskedText, value, tag)]

\* the body of the loop over the matches of one pattern; st carries the
\* PIIVault fields and maskedText
MaskValue(st, type, value) ==
    IF MapHas(st.reverseMap, value)
    THEN [st EXCEPT !.maskedText =
              SplitJoin(st.maskedText, value, MapGet(st.reverseMap, value))]
    ELSE LET n == st.counters[type] + 1
             tag == MakeTag(TAG_PREFIXES[type], n)
         IN  [vault |-> MapSet(st.vault, tag, value),
              reverseMap |-> MapSet(st.reverseMap, value, tag),
              counters |-> [st.counters EXCEPT ![type] = n],
              maskedText |-> SplitJoin(st.maskedText, value, tag)]

RECURSIVE MaskMatches(_, _, _, _, _)
\* for (const match of matches): the matches were found in the input text
MaskMatches(st, type, text, ms, k) ==
    IF k > Len(ms) THEN st
    ELSE MaskMatches(MaskValue(st, type, Matched(text, ms[k])), type, text, ms, k + 1)

RECURSIVE MaskPatterns(_, _, _, _)
\* for (const [type, pattern] of PATTERNS_ORDERED)
MaskPatterns(st, text, pats, j) ==
    IF j > Len(pats) THEN st
    ELSE MaskPatterns(
            MaskMatches(st, pats[j][1], text, MatchAll(pats[j][2], text), 1),
            text, pats, j + 1)

\* mask(text) on the PIIVault v: the PIIVault after the call, and the text
\* returned
mask(v, text) ==
    LET st == MaskPatterns([vault |-> v.vault, reverseMap |-> v.reverseMap,
                            counters |-> v.counters, maskedText |-> text],
                           text, PATTERNS_ORDERED, 1)
    IN  [v |-> [vault |-> st.vault, reverseMap |-> st.reverseMap,
                counters |-> st.counters],
         ret |-> st.maskedText]

RECURSIVE InsertByLength(_, _)
\* tag goes before the first tag that is strictly shorter: the sort is stable
InsertByLength(sorted, tag) ==
    IF sorted = <<>> THEN <<tag>>
    ELSE IF Len(Head(sorted)) < Len(tag) THEN <<tag>> \o sorted
         ELSE <<Head(sorted)>> \o InsertByLength(Tail(sorted), tag)

RECURSIVE SortByLength(_, _)
SortByLength(tags, k) ==
    IF k = 0 THEN <<>>
    ELSE InsertByLength(SortByLength(tags, k - 1), tags[k])

\* a variant without the sort: the tags in the order the vault recorded them
InsertionOrderTags(vault) == MapKeys(vault)

\* Array.from(this.vault.keys()).sort((a, b) => b.length - a.length)
SortedTags(vault) == SortByLength(MapKeys(vault), Len(vault))

\* a variant that matches the tag as mask wrote it and nothing else
FuzzyPatternExact(tag) == Lit(tag)

\* a variant that takes any digits for the index of the tag
FuzzyPatternAnyIndex(tag) ==
    LET inner == SubSeq(tag, 2, Len(tag) - 1)
        last == CHOOSE j \in 1..Len(inner) :
                    inner[j] = "_" /\ \A k \in (j + 1)..Len(inner) : inner[k] \in Digit
    IN  Cat(<< <<"set", {"<", "[", "("}>>,
               Star(<<"set", Space>>),
               Lit(Take(inner, last)),
               Plus(<<"set", Digit>>),
               Star(<<"set", Space>>),
               <<"set", {">", "]", ")"}>> >>)

\* new RegExp(`[<\\[\\(]\\s*${escapedInner}\\s*[>\\]\\)]`, 'g'), where innerTag is
\* tag.slice(1, -1) and escapedInner matches innerTag literally
FuzzyPattern(tag) ==
    Cat(<< <<"set", {"<", "[", "("}>>,
           Star(<<"set", Space>>),
           Lit(SubSeq(tag, 2, Len(tag) - 1)),
           Star(<<"set", Space>>),
           <<"set", {">", "]", ")"}>> >>)

RECURSIVE UnmaskTags(_, _, _, _)
\* for (const tag of tags)
UnmaskTags(vault, tags, k, text) ==
    IF k > Len(tags) THEN text
    ELSE UnmaskTags(vault, tags, k + 1,
                    ReplaceAll(text, FuzzyPattern(tags[k]), MapGet(vault, tags[k])))

\* unmask(text) on the PIIVault v: the text returned
unmask(v, text) == UnmaskTags(v.vault, SortedTags(v.vault), 1, text)

\* an unmask that resets the counters of the PIIVault
afterUnmaskCounting(v, text) == [v EXCEPT !.counters = [ty \in Types |-> 0]]

\* the PIIVault v after unmask(text): the method reads this.vault and assigns
\* to no field
afterUnmask(v, text) == v

\* a variant that clears the maps and keeps the counters
flushKeepCounters(v) ==
    [vault |-> <<>>, reverseMap |-> <<>>, counters |-> v.counters]

\* flush() on the PIIVault v: the PIIVault after the call
flush(v) ==
    [vault |-> <<>>, reverseMap |-> <<>>, counters |-> [ty \in Types |-> 0]]

\* get size()
size(v) == Len(v.vault)

(***************************************************************************)
(* JSON.parse.  A parsed value is a tagged tuple:                          *)
(*   <<"null">>  <<"bool", b>>  <<"num", n>>  <<"str", chars>>             *)
(*   <<"arr", <<v..>>>>  <<"obj", f>> with f a function from the keys      *)
(* (a later member of the same key replaces the earlier one).  A number    *)
(* without fraction and exponent is its integer; any other number is kept  *)
(* as it is spelled.  A parse returns [ok, val, pos]: whether it           *)
(* succeeded, the value, and the offset after it.                          *)
(***************************************************************************)
JsonWs == {" ", "\t", "\n", "\r"}

HexDigit == Digit \cup {"a", "b", "c", "d", "e", "f", "A", "B", "C", "D", "E", "F"}

ParseFail == [ok |-> FALSE, val |-> <<"null">>, pos |-> 0]

RECURSIVE SkipWs(_, _)
SkipWs(s, i) == IF i < Len(s) /\ s[i + 1] \in JsonWs THEN SkipWs(s, i + 1) ELSE i

RECURSIVE DigitsEnd(_, _)
\* the offset after the run of digits that starts at offset i
DigitsEnd(s, i) == IF i < Len(s) /\ s[i + 1] \in Digit THEN DigitsEnd(s, i + 1) ELSE i

DigitVal(c) == CHOOSE n \in 0..9 : DigitsOf(n) = <<c>>

RECURSIVE NatOf(_)
NatOf(ds) == IF ds = <<>> THEN 0 ELSE NatOf(Take(ds, Len(ds) - 1)) * 10 + DigitVal(ds[Len(ds)])

\* -?(0|[1-9][0-9]*)(\.[0-9]+)?([eE][+-]?[0-9]+)? at offset i
ParseNumber(s, i) ==
    LET neg == i < Len(s) /\ s[i + 1] = "-"
        i0 == IF neg THEN i + 1 ELSE i
        i1 == IF i0 < Len(s) /\ s[i0 + 1] = "0" THEN i0 + 1 ELSE DigitsEnd(s, i0)
        hasFrac == i1 < Len(s) /\ s[i1 + 1] = "."
        i2 == IF hasFrac THEN DigitsEnd(s, i1 + 1) ELSE i1
        hasExp == i2 < Len(s) /\ s[i2 + 1] \in {"e", "E"}
        e0 == IF hasExp /\ i2 + 1 < Len(s) /\ s[i2 + 2] \in {"+", "-"}
              THEN i2 + 2 ELSE i2 + 1
        i3 == IF hasExp THEN DigitsEnd(s, e0) ELSE i2
    IN  IF i1 = i0 \/ (hasFrac /\ i2 = i1 + 1) \/ (hasExp /\ i3 = e0)
        THEN ParseFail
        ELSE [ok |-> TRUE,
              val |-> IF hasFrac \/ hasExp
                      THEN <<"num", SubSeq(s, i + 1, i3)>>
                      ELSE <<"num", IF neg THEN 0 - NatOf(SubSeq(s, i0 + 1, i1))
                                           ELSE NatOf(SubSeq(s, i0 + 1, i1))>>,
              pos |-> i3]

\* the character an escape \c stands for
Unescape(c) ==
    CASE c = "b" -> "\\b" [] c = "f" -> "\f" [] c = "n" -> "\n"
      [] c = "r" -> "\r" [] c = "t" -> "\t" [] OTHER -> c

RECURSIVE ParseChars(_, _, _)
\* the characters of a string after its opening quote, up to the closing one
ParseChars(s, i, acc) ==
    IF i >= Len(s) THEN ParseFail
    ELSE LET c == s[i + 1]
         IN  IF c = "\"" THEN [ok |-> TRUE, val |-> <<"str", acc>>, pos |-> i + 1]
             ELSE IF c = "\\"
             THEN IF i + 1 >= Len(s) THEN ParseFail
                  ELSE LET e == s[i + 2]
                       IN  IF e \in {"\"", "\\", "/", "b", "f", "n", "r", "t"}
                           THEN ParseChars(s, i + 2, Append(acc, Unescape(e)))
                           ELSE IF e = "u" /\ i + 6 <= Len(s)
                                   /\ \A j \in 3..6 : s[i + j] \in HexDigit
                           THEN ParseChars(s, i + 6,
                                    Append(acc, "\\u" \o s[i + 3] \o s[i + 4]
                                                \o s[i + 5] \o s[i + 6]))
                           ELSE ParseFail
             ELSE IF c \in {"\n", "\t", "\r"} THEN ParseFail
             ELSE ParseChars(s, i + 1, Append(acc, c))

ParseLiteral(s, i, word, val) ==
    IF OccursAt(s, word, i)
    THEN [ok |-> TRUE, val |-> val, pos |-> i + Len(word)]
    ELSE ParseFail

RECURSIVE ParseValue(_, _)
RECURSIVE ParseElements(_, _, _)
RECURSIVE ParseMembers(_, _, _)

\* a value at offset i, after optional whitespace
ParseValue(s, i) ==
    LET j == SkipWs(s, i)
    IN  IF j >= Len(s) THEN ParseFail
        ELSE LET c == s[j + 1]
             IN  CASE c = "{" ->
                        IF SkipWs(s, j + 1) < Len(s) /\ s[SkipWs(s, j + 1) + 1] = "}"
                        THEN [ok |-> TRUE, val |-> <<"obj", <<>>>>,
                              pos |-> SkipWs(s, j + 1) + 1]
                        ELSE ParseMembers(s, j + 1, <<>>)
                   [] c = "[" ->
                        IF SkipWs(s, j + 1) < Len(s) /\ s[SkipWs(s, j + 1) + 1] = "]"
                        THEN [ok |-> TRUE, val |-> <<"arr", <<>>>>,
                              pos |-> SkipWs(s, j + 1) + 1]
                        ELSE ParseElements(s, j + 1, <<>>)
                   [] c = "\"" -> ParseChars(s, j + 1, <<>>)
                   [] c = "-" \/ c \in Digit -> ParseNumber(s, j)
                   [] c = "t" -> ParseLiteral(s, j, <<"t", "r", "u", "e">>, <<"bool", TRUE>>)
                   [] c = "f" -> ParseLiteral(s, j, <<"f", "a", "l", "s", "e">>, <<"bool", FALSE>>)
                   [] c = "n" -> ParseLiteral(s, j, <<"n", "u", "l", "l">>, <<"null">>)
                   [] OTHER -> ParseFail

\* the elements of an array after "[" or ",", up to "]"
ParseElements(s, i, acc) ==
    LET v == ParseValue(s, i)
        j == SkipWs(s, v.pos)
    IN  IF ~v.ok \/ j >= Len(s) THEN ParseFail
        ELSE IF s[j + 1] = "," THEN ParseElements(s, j + 1, Append(acc, v.val))
        ELSE IF s[j + 1] = "]"
        THEN [ok |-> TRUE, val |-> <<"arr", Append(acc, v.val)>>, pos |-> j + 1]
        ELSE ParseFail

\* the members of an object after "{" or ",", up to "}"
ParseMembers(s, i, acc) ==
    LET k0 == SkipWs(s, i)
        key == IF k0 < Len(s) /\ s[k0 + 1] = "\"" THEN ParseChars(s, k0 + 1, <<>>)
               ELSE ParseFail
        c == SkipWs(s, key.pos)
        v == IF key.ok /\ c < Len(s) /\ s[c + 1] = ":" THEN ParseValue(s, c + 1)
             ELSE ParseFail
        j == SkipWs(s, v.pos)
        f == (key.val[2] :> v.val) @@ acc
    IN  IF ~v.ok \/ j >= Len(s) THEN ParseFail
        ELSE IF s[j + 1] = "," THEN ParseMembers(s, j + 1, f)
        ELSE IF s[j + 1] = "}" THEN [ok |-> TRUE, val |-> <<"obj", f>>, pos |-> j + 1]
        ELSE ParseFail

\* JSON.parse(s): ok is FALSE where JSON.parse throws
JSONparse(s) ==
    LET v == ParseValue(s, 0)
    IN  IF v.ok /\ SkipWs(s, v.pos) = Len(s) THEN v ELSE ParseFail

(***************************************************************************)
(* repair.js                                                               *)
(***************************************************************************)
\* the grave accent; a TLA+ string literal cannot hold the character itself
Backtick == "GRAVE"

Fence == <<Backtick, Backtick, Backtick>>

\* /^```[a-zA-Z]*\s*/
FenceOpenRE ==
    Cat(<< <<"bos">>, Lit(Fence), Star(<<"set", Letter>>), Star(<<"set", Space>>) >>)

\* /\s*```$/
FenceCloseRE == Cat(<< Star(<<"set", Space>>), Lit(Fence), <<"eos">> >>)

\* /,\s*$/
TrailingCommaRE == Cat(<< Chr(","), Star(<<"set", Space>>), <<"eos">> >>)

stripMarkdown(text) ==
    IF text = <<>> THEN <<>>
    ELSE ReplaceFirst(ReplaceFirst(Trim(text), FenceOpenRE, <<>>), FenceCloseRE, <<>>)

\* the last element of the stack, or "" for an empty stack
Top(stack) == IF stack = <<>> THEN "" ELSE stack[Len(stack)]

Pop(stack) == Take(stack, Len(stack) - 1)

\* a loop whose backslash escapes outside a string as well
ScanCharEscapeAnywhere(a, char) ==
    IF a.escaped THEN [a EXCEPT !.escaped = FALSE]
    ELSE IF char = "\\" THEN [a EXCEPT !.escaped = TRUE]
    ELSE IF char = "\""
    THEN IF ~a.inString
         THEN [a EXCEPT !.inString = TRUE, !.stack = Append(a.stack, "\"")]
         ELSE [a EXCEPT !.inString = FALSE,
                        !.stack = IF Top(a.stack) = "\"" THEN Pop(a.stack) ELSE a.stack]
    ELSE IF a.inString THEN a
    ELSE IF char \in {"{", "["} THEN [a EXCEPT !.stack = Append(a.stack, char)]
    ELSE IF char = "}" /\ Top(a.stack) = "{" THEN [a EXCEPT !.stack = Pop(a.stack)]
    ELSE IF char = "]" /\ Top(a.stack) = "[" THEN [a EXCEPT !.stack = Pop(a.stack)]
    ELSE a

\* one iteration of the state machine's loop, on the character char; a is
\* the record of stack, inString and escaped
ScanChar(a, char) ==
    IF a.escaped THEN [a EXCEPT !.escaped = FALSE]
    ELSE IF char = "\\" /\ a.inString THEN [a EXCEPT !.escaped = TRUE]
    ELSE IF char = "\""
    THEN IF ~a.inString
         THEN [a EXCEPT !.inString = TRUE, !.stack = Append(a.stack, "\"")]
         ELSE [a EXCEPT !.inString = FALSE,
                        !.stack = IF Top(a.stack) = "\"" THEN Pop(a.stack) ELSE a.stack]
    ELSE IF a.inString THEN a
    ELSE IF char \in {"{", "["} THEN [a EXCEPT !.stack = Append(a.stack, char)]
    ELSE IF char = "}" /\ Top(a.stack) = "{" THEN [a EXCEPT !.stack = Pop(a.stack)]
    ELSE IF char = "]" /\ Top(a.stack) = "[" THEN [a EXCEPT !.stack = Pop(a.stack)]
    ELSE a

RECURSIVE ScanFrom(_, _, _)
ScanFrom(a, s, i) ==
    IF i >= Len(s) THEN a ELSE ScanFrom(ScanChar(a, s[i + 1]), s, i + 1)

\* the state machine over the whole text
Scan(s) == ScanFrom([stack |-> <<>>, inString |-> FALSE, escaped |-> FALSE], s, 0)

\* "Auto-close: First close any open string"; r is the record of result,
\* patches, isPartial and stack
CloseString(r, inString) ==
    IF inString
    THEN [result |-> Append(r.result, "\""),
          patches |-> Append(r.patches, [type |-> "unclosed_string", index |-> Len(r.result)]),
          isPartial |-> TRUE,
          stack |-> IF Top(r.stack) = "\"" THEN Pop(r.stack) ELSE r.stack]
    ELSE r

\* "Handle trailing comma before closing"
StripComma(r) ==
    LET m == MatchFirst(TrailingCommaRE, r.result)
    IN  IF m # <<>>
        THEN [r EXCEPT !.result = ReplaceFirst(r.result, TrailingCommaRE, <<>>),
                       !.patches = Append(r.patches,
                                     [type |-> "trailing_comma", index |-> m[1].start]),
                       !.isPartial = TRUE]
        ELSE r

RECURSIVE CloseBracketsQuiet(_)
\* a variant that closes the brackets without reporting the text as partial
CloseBracketsQuiet(r) ==
    IF r.stack = <<>> THEN r
    ELSE LET open == Top(r.stack)
             rest == [r EXCEPT !.stack = Pop(r.stack)]
         IN  IF open \in {"{", "["}
             THEN CloseBracketsQuiet(
                    [rest EXCEPT !.result = Append(r.result, IF open = "{" THEN "}" ELSE "]"),
                                 !.patches = Append(r.patches,
                                     [type |-> "missing_brace", index |-> Len(r.result)])])
             ELSE CloseBracketsQuiet(rest)

RECURSIVE CloseBracketsFifo(_)
\* a variant that closes the outermost open structure first
CloseBracketsFifo(r) ==
    IF r.stack = <<>> THEN r
    ELSE LET open == Head(r.stack)
             rest == [r EXCEPT !.stack = Tail(r.stack)]
         IN  IF open \in {"{", "["}
             THEN CloseBracketsFifo(
                    [rest EXCEPT !.result = Append(r.result, IF open = "{" THEN "}" ELSE "]"),
                                 !.patches = Append(r.patches,
                                     [type |-> "missing_brace", index |-> Len(r.result)]),
                                 !.isPartial = TRUE])
             ELSE CloseBracketsFifo(rest)

RECURSIVE CloseBracketsUnpatched(_)
\* a variant that reports the closing of an object only
CloseBracketsUnpatched(r) ==
    IF r.stack = <<>> THEN r
    ELSE LET open == Top(r.stack)
             rest == [r EXCEPT !.stack = Pop(r.stack)]
         IN  IF open = "{"
             THEN CloseBracketsUnpatched(
                    [rest EXCEPT !.result = Append(r.result, "}"),
                                 !.patches = Append(r.patches,
                                     [type |-> "missing_brace", index |-> Len(r.result)]),
                                 !.isPartial = TRUE])
             ELSE IF open = "["
             THEN CloseBracketsUnpatched(
                    [rest EXCEPT !.result = Append(r.result, "]"), !.isPartial = TRUE])
             ELSE CloseBracketsUnpatched(rest)

RECURSIVE CloseBrackets(_)
\* "Close remaining brackets in reverse order"
CloseBrackets(r) ==
    IF r.stack = <<>> THEN r
    ELSE LET open == Top(r.stack)
             rest == [r EXCEPT !.stack = Pop(r.stack)]
         IN  IF open \in {"{", "["}
             THEN CloseBrackets(
                    [rest EXCEPT !.result = Append(r.result, IF open = "{" THEN "}" ELSE "]"),
                                 !.patches = Append(r.patches,
                                     [type |-> "missing_brace", index |-> Len(r.result)]),
                                 !.isPartial = TRUE])
             ELSE CloseBrackets(rest)

\* a variant of RepairText that does not catch the error of JSON.parse: what
\* it returns stands for the SyntaxError raised
RepairTextUncaught(text) ==
    IF text = <<>> \/ Trim(text) = <<>>
    THEN [fixed |-> <<"{", "}">>, data |-> <<"obj", <<>>>>,
          isPartial |-> FALSE, patches |-> <<>>]
    ELSE LET a == Scan(Trim(text))
             r == CloseBrackets(StripComma(CloseString(
                    [result |-> Trim(text), patches |-> <<>>,
                     isPartial |-> FALSE, stack |-> a.stack], a.inString)))
             parsed == JSONparse(r.result)
         IN  IF parsed.ok
             THEN [fixed |-> r.result, data |-> parsed.val,
                   isPartial |-> r.isPartial, patches |-> r.patches]
             ELSE [name |-> "SyntaxError"]

\* a variant of RepairText that trims the trailing comma before it closes
\* the open string
RepairTextCommaFirst(text) ==
    IF text = <<>> \/ Trim(text) = <<>>
    THEN [fixed |-> <<"{", "}">>, data |-> <<"obj", <<>>>>,
          isPartial |-> FALSE, patches |-> <<>>]
    ELSE LET a == Scan(Trim(text))
             r == CloseBrackets(CloseString(StripComma(
                    [result |-> Trim(text), patches |-> <<>>,
                     isPartial |-> FALSE, stack |-> a.stack]), a.inString))
             parsed == JSONparse(r.result)
         IN  [fixed |-> r.result,
              data |-> IF parsed.ok THEN parsed.val ELSE <<"null">>,
              isPartial |-> r.isPartial,
              patches |-> r.patches]

\* repairJSON after its pre-processing: text is the stripped or extracted text
RepairText(text) ==
    IF text = <<>> \/ Trim(text) = <<>>
    THEN [fixed |-> <<"{", "}">>, data |-> <<"obj", <<>>>>,
          isPartial |-> FALSE, patches |-> <<>>]
    ELSE LET a == Scan(Trim(text))
             r == CloseBrackets(StripComma(CloseString(
                    [result |-> Trim(text), patches |-> <<>>,
                     isPartial |-> FALSE, stack |-> a.stack], a.inString)))
             parsed == JSONparse(r.result)
         IN  [fixed |-> r.result,
              data |-> IF parsed.ok THEN parsed.val ELSE <<"null">>,
              isPartial |-> r.isPartial,
              patches |-> r.patches]

\* repairJSON(raw) with the default options (extract: false)
repairJSON(raw) == RepairText(stripMarkdown(raw))

\* "Final Validation / Parse Check" of the worker: repairResult is what
\* repairJSON returned, again what JSON.parse makes of its fixed text
ParseCheck(repairResult, again) ==
    LET retry == repairResult.data = <<"null">> /\ repairResult.fixed # <<"n", "u", "l", "l">>
    IN  [fixedString |-> repairResult.fixed,
         data |-> IF retry /\ again.ok THEN again.val ELSE repairResult.data,
         isValid |-> ~(retry /\ ~again.ok),
         isPartial |-> repairResult.isPartial,
         patches |-> repairResult.patches,
         mode |-> "js"]

FinalValidation(repairResult) == ParseCheck(repairResult, JSONparse(repairResult.fixed))

\* the result of the worker for a REPAIR_JSON message in the pure JS mode,
\* extract false
RepairJsonResult(payload) == FinalValidation(repairJSON(payload))

(***************************************************************************)
(* The state.                                                              *)
(*   vault, reverseMap, counters   the fields of one PIIVault              *)
(*   op, arg, ret    the last call on it (or the echo of its caller's      *)
(*                   model): what was called, on what text, what returned  *)
(*   sent            the text of the mask call whose masked text is in     *)
(*                   circulation, for a round trip                         *)
(*   masks, flushes  the mask calls since the last flush, the flush calls  *)
(*   fresh           a second PIIVault, created by new PIIVault() when the *)
(*                   first one was last flushed (or created), that gets    *)
(*                   the same calls: its fields and its last return        *)
(*   raw, res, res2  the text given to repairJSON, its result, and the     *)
(*                   result of repairing res.fixed again                   *)
(*   doc             the JSON document a stream delivers                   *)
(*   scanArgs, scanRes        the arguments of a scanText call, its result *)
(*   scanRes2                 the result of the same call made again       *)
(*   extractArgs, extractRes  the arguments of an extractJSON call, its    *)
(*                            result                                       *)
(*   reply           the result the worker computed for the last message   *)
(*   fixedStr        what the C kernel returned for the last text          *)
(*   nextId, pendingRequests, timers, posted, responses, settled           *)
(*                   the transport of useAIGuard: the number of ids drawn, *)
(*                   the ids of the map pendingRequests, the ids whose     *)
(*                   timeout is armed, the messages posted to the worker   *)
(*                   and not handled yet, the responses posted by the      *)
(*                   worker and not delivered yet, and for every id the    *)
(*                   calls made of the resolve and reject of its promise   *)
(*   hook, rawString, requestIdRef, awaited, completedRef, prevDataRef,    *)
(*   callbacks       one mounted useStreamingJson: its options and React   *)
(*                   state, its input, its refs, the repairJson calls it   *)
(*                   awaits, and the calls made of its callbacks; the      *)
(*                   field fired of hook is history: whether onComplete    *)
(*                   was called since the stream of the input began        *)
(*   guard           one mounted useGuard: its stream, its React state,    *)
(*                   the runs of its effect that await repairJson, its     *)
(*                   completedRef and the calls made of its callbacks      *)
(*   plugins         the worker's plugin registry: the loaded plugins, the *)
(*                   loads in progress, and what was called on each plugin *)
(*   kernel          a call of the native kernel on a long text: the text  *)
(*                   as runs of one character, and the indices of OUTPUT   *)
(*                   the call wrote                                        *)
(***************************************************************************)
VARIABLES vault, reverseMap, counters, op, arg, ret, sent, masks, flushes, fresh,
          raw, res, res2, doc, scanArgs, scanRes, extractArgs, extractRes, reply,
          fixedStr, scanRes2,
          nextId, pendingRequests, timers, posted, responses, settled,
          hook, rawString, requestIdRef, awaited, completedRef, prevDataRef, callbacks,
          guard, plugins, kernel

vaultVars == <<vault, reverseMap, counters, arg, ret, sent, masks, flushes, fresh>>

vars == <<vault, reverseMap, counters, op, arg, ret, sent, masks, flushes, fresh,
          raw, res, res2, doc, scanArgs, scanRes, extractArgs, extractRes, reply,
          fixedStr, scanRes2,
          nextId, pendingRequests, timers, posted, responses, settled,
          hook, rawString, requestIdRef, awaited, completedRef, prevDataRef, callbacks,
          guard, plugins, kernel>>

scanVars == <<scanArgs, scanRes, scanRes2>>

extractVars == <<extractArgs, extractRes>>

transportVars == <<nextId, pendingRequests, timers, posted, responses, settled>>

hookVars == <<hook, rawString, requestIdRef, awaited, completedRef, prevDataRef, callbacks>>

workerVars == <<reply, fixedStr, transportVars, hookVars, guard, plugins, kernel>>

\* the PIIVault `this`
Self == [vault |-> vault, reverseMap |-> reverseMap, counters |-> counters]

\* the bounds of the model
MaxMasks == 2

MaxFlushes == 1

(***************************************************************************)
(* The texts given to mask: words joined by one space.                     *)
(***************************************************************************)
WEmailA == <<"a", "@", "b", ".", "c", "o">>

WEmailC == <<"c", "@", "b", ".", "c", "o">>

WPhone == <<"5", "5", "5", " ", "1", "2", "3", " ", "4", "5", "6", "7">>

WOne == <<"1">>

WCard == <<"4", "1", "1", "1", "1", "1", "1", "1", "1", "1", "1", "1", "1", "1", "1", "1">>

WCardDashed == <<"4", "1", "1", "1", "-", "1", "1", "1", "1", "-", "1", "1", "1", "1", "-", "1", "1", "1", "1">>

WCard13 == <<"1", "2", "3", "4", " ", "5", "6", "7", "8", " ", "9", "0", "1", "2", " ", "1">>

WIp == <<"1", "0", ".", "0", ".", "0", ".", "1">>

WHi == <<"h", "i">>

\* prose that has the shape of a token
WTok == <<"[", "E", "M", "A", "I", "L", "_", "1", "]">>

RECURSIVE Join(_)
Join(ws) ==
    IF ws = <<>> THEN <<>>
    ELSE IF Len(ws) = 1 THEN ws[1]
    ELSE ws[1] \o <<" ">> \o Join(Tail(ws))

MaskInputs ==
    { <<WEmailA>>,
      <<WHi, WEmailA, WEmailC, WEmailA>>,
      <<WPhone>>,
      <<WPhone, WOne, WPhone>>,
      <<WCard>>,
      <<WCardDashed>>,
      <<WCard13, WPhone>>,
      <<WIp>>,
      <<WTok, WEmailC>>,
      <<WHi>> }

(***************************************************************************)
(* The caller's model echoes the masked text with the delimiters of the    *)
(* tokens altered: another bracket style, whitespace inside the brackets.  *)
(***************************************************************************)
EchoKinds ==
    << [open |-> "<", close |-> ">", pad |-> <<>>],
       [open |-> "[", close |-> "]", pad |-> <<" ">>],
       [open |-> "(", close |-> ")", pad |-> <<>>],
       [open |-> "<", close |-> ">", pad |-> <<" ", " ">>],
       [open |-> "[", close |-> "]", pad |-> <<>>],
       [open |-> "(", close |-> ")", pad |-> <<"\n">>] >>

\* the token tag with the delimiters of kind
Altered(tag, kind) ==
    <<kind.open>> \o kind.pad \o SubSeq(tag, 2, Len(tag) - 1) \o kind.pad \o <<kind.close>>

TagAt(s, tags, i) == {j \in 1..Len(tags) : OccursAt(s, tags[j], i)}

RECURSIVE EchoFrom(_, _, _, _)
\* the n-th token of the text (counting from 0) gets the kind (a + n) of the cycle
EchoFrom(s, tags, i, a) ==
    IF i >= Len(s) THEN <<>>
    ELSE IF TagAt(s, tags, i) # {}
    THEN LET tag == tags[CHOOSE j \in TagAt(s, tags, i) : TRUE]
         IN  Altered(tag, EchoKinds[(a % Len(EchoKinds)) + 1])
             \o EchoFrom(s, tags, i + Len(tag), a + 1)
    ELSE <<s[i + 1]>> \o EchoFrom(s, tags, i + 1, a)

EchoText(s, tags, a) == EchoFrom(s, tags, 0, a)

(***************************************************************************)
(* The texts given to unmask directly: tokens the vault may or may not     *)
(* know, in several delimiter styles, and prose.                           *)
(***************************************************************************)
Chars(prefix, n) == prefix \o <<"_">> \o DigitsOf(n)

UEmail == <<"E", "M", "A", "I", "L">>

UPhone == <<"P", "H", "O", "N", "E">>

USsn == <<"S", "S", "N">>

\* a word of an unmask text: a token of the inner name inner in the delimiter
\* style kind, or prose (inner = <<>>)
UTok(inner, kind) == [inner |-> inner, text |-> Altered(<<"<">> \o inner \o <<">">>, kind)]

UProse(text) == [inner |-> <<>>, text |-> text]

UnmaskInputs ==
    { << UTok(Chars(UEmail, 1), EchoKinds[1]), UTok(Chars(UEmail, 2), EchoKinds[2]) >>,
      << UTok(Chars(UEmail, 9), EchoKinds[1]), UTok(Chars(UEmail, 1), EchoKinds[6]) >>,
      << UTok(Chars(USsn, 1), EchoKinds[3]), UTok(Chars(UPhone, 1), EchoKinds[4]) >>,
      << UProse(WHi), UTok(Chars(UPhone, 2), EchoKinds[5]), UTok(Chars(UEmail, 3), EchoKinds[3]) >>,
      << UTok(Chars(TAG_PREFIXES["CREDIT_CARD"], 1), EchoKinds[2]),
         UTok(Chars(TAG_PREFIXES["IPV4"], 1), EchoKinds[1]),
         UProse(Chars(UEmail, 1)) >> }

UText(ws) == Join([j \in 1..Len(ws) |-> ws[j].text])

(***************************************************************************)
(* The PIIVault and its caller.                                            *)
(***************************************************************************)
NoResult == [fixed |-> <<>>, data |-> <<"null">>, isPartial |-> FALSE, patches |-> <<>>]

RepairIdle == raw = <<>> /\ res = NoResult /\ res2 = NoResult /\ doc = <<"null">>

\* no request was posted
TransportIdle ==
    /\ nextId = 0
    /\ pendingRequests = {}
    /\ timers = {}
    /\ posted = {}
    /\ responses = {}
    /\ settled = <<>>

\* no hook is mounted
HookIdle ==
    /\ hook = <<>>
    /\ rawString = <<>>
    /\ requestIdRef = 0
    /\ awaited = {}
    /\ completedRef = FALSE
    /\ prevDataRef = <<"null">>
    /\ callbacks = <<>>

\* no scanText or extractJSON call was made, no message handled
ToolsIdle ==
    /\ scanArgs = <<>>
    /\ scanRes = <<>>
    /\ scanRes2 = <<>>
    /\ extractArgs = <<>>
    /\ extractRes = <<>>
    /\ reply = <<>>
    /\ fixedStr = <<>>
    /\ guard = <<>>
    /\ plugins = <<>>
    /\ kernel = <<>>
    /\ TransportIdle
    /\ HookIdle

\* after new PIIVault(), before any call
VaultNew ==
    /\ vault = NewVault.vault
    /\ reverseMap = NewVault.reverseMap
    /\ counters = NewVault.counters
    /\ arg = <<>>
    /\ ret = <<>>
    /\ sent = <<>>
    /\ masks = 0
    /\ flushes = 0
    /\ fresh = [v |-> NewVault, ret |-> <<>>]

Init ==
    /\ VaultNew
    /\ op = "new"
    /\ RepairIdle
    /\ ToolsIdle

\* vault.mask(text)
MaskText(text) ==
    /\ \E r \in {mask(Self, text)} :
          /\ vault' = r.v.vault
          /\ reverseMap' = r.v.reverseMap
          /\ counters' = r.v.counters
          /\ ret' = r.ret
          \* the same call on an equal PIIVault returns the same
          /\ \E f \in {IF fresh.v = Self THEN r ELSE mask(fresh.v, text)} :
                fresh' = [v |-> f.v, ret |-> f.ret]
    /\ op' = "mask"
    /\ arg' = text
    /\ sent' = text
    /\ masks' = masks + 1
    /\ UNCHANGED <<flushes, raw, res, res2, doc, scanVars, extractVars, workerVars>>

Mask ==
    /\ masks < MaxMasks
    /\ \E ws \in MaskInputs : MaskText(Join(ws))

\* the caller's model echoes the masked text, altering the tokens' delimiters
Echo ==
    /\ op = "mask"
    /\ \E a \in 0..(Len(EchoKinds) - 1) :
          ret' = EchoText(ret, MapKeys(vault), a)
    /\ op' = "echo"
    /\ arg' = ret
    /\ UNCHANGED <<vault, reverseMap, counters, sent, masks, flushes, fresh,
                   raw, res, res2, doc, scanVars, extractVars, workerVars>>

\* vault.unmask(text)
UnmaskText(text) ==
    /\ \E r \in {unmask(Self, text)} :
          /\ ret' = r
          /\ fresh' = [fresh EXCEPT !.ret = IF fresh.v = Self THEN r
                                            ELSE unmask(fresh.v, text)]
    /\ \E v \in {afterUnmask(Self, text)} :
          /\ vault' = v.vault
          /\ reverseMap' = v.reverseMap
          /\ counters' = v.counters
    /\ arg' = text
    /\ UNCHANGED <<masks, flushes, raw, res, res2, doc, scanVars, extractVars, workerVars>>

\* vault.unmask of what the model answered to the masked text
UnmaskReply ==
    /\ op \in {"mask", "echo"}
    /\ UnmaskText(ret)
    /\ op' = "reply"
    /\ UNCHANGED sent

\* vault.unmask of any text; the call leaves the PIIVault as it is, so one
\* call after each call that writes the PIIVault covers them all
Unmask ==
    /\ op \in {"new", "mask", "flush"}
    /\ \E ws \in UnmaskInputs : UnmaskText(UText(ws))
    /\ op' = "unmask"
    /\ sent' = <<>>

\* vault.flush()
Flush ==
    /\ flushes < MaxFlushes
    /\ LET v == flush(Self)
       IN  /\ vault' = v.vault
           /\ reverseMap' = v.reverseMap
           /\ counters' = v.counters
    /\ fresh' = [v |-> NewVault, ret |-> <<>>]
    /\ op' = "flush"
    /\ arg' = <<>>
    /\ ret' = <<>>
    /\ sent' = <<>>
    /\ masks' = 0
    /\ flushes' = flushes + 1
    /\ UNCHANGED <<raw, res, res2, doc, scanVars, extractVars, workerVars>>

Next == Mask \/ Echo \/ UnmaskReply \/ Unmask \/ Flush

Spec == Init /\ [][Next]_vars

(***************************************************************************)
(* repairJSON on arbitrary text: the text is a sequence of at most MaxLen  *)
(* lexemes, and what repairJSON returned is repaired again.                *)
(***************************************************************************)
MaxLen == 3

Alphabet ==
    { <<"{">>, <<"}">>, <<"[">>, <<"]">>, <<"\"">>, <<"\\">>, <<",">>, <<":">>,
      <<" ">>, <<"a">>, <<"1">>, Fence, <<"n", "u", "l", "l">> }

\* the example of the README: a stream cut inside a string, two objects open
ReadmeExample ==
    <<"{", "\"", "u", "s", "e", "r", "\"", ":", " ", "{", "\"", "n", "a", "m", "e", "\"", ":", " ", "\"", "L", "i", "n", "u", "s", "\"", ",", " ", "\"", "r", "o", "l", "e", "\"", ":", " ", "\"", "a", "d", "m", "i", "n">>

RepairInputs == UNION {[1..n -> Alphabet] : n \in 0..MaxLen}

InitRepair ==
    /\ VaultNew
    /\ op = "new"
    /\ \E ls \in RepairInputs \cup {<<ReadmeExample>>} : raw = Concat(ls)
    /\ res = NoResult
    /\ res2 = NoResult
    /\ doc = <<"null">>
    /\ ToolsIdle

\* repairJSON(raw)
Repair ==
    /\ op = "new"
    /\ res' = repairJSON(raw)
    /\ op' = "repair"
    /\ UNCHANGED <<vaultVars, raw, res2, doc, scanVars, extractVars, workerVars>>

\* repairJSON(repairJSON(raw).fixed)
RepairAgain ==
    /\ op = "repair"
    /\ res2' = repairJSON(res.fixed)
    /\ op' = "again"
    /\ UNCHANGED <<vaultVars, raw, res, doc, scanVars, extractVars, workerVars>>

\* the worker handles the message {type: 'REPAIR_JSON', payload: raw}
RepairJson ==
    /\ op = "new"
    /\ reply' = RepairJsonResult(raw)
    /\ op' = "worker"
    /\ UNCHANGED <<vaultVars, raw, res, res2, doc, scanVars, extractVars, fixedStr,
                   transportVars, hookVars, guard, plugins, kernel>>

NextRepair == Repair \/ RepairAgain \/ RepairJson

SpecRepair == InitRepair /\ [][NextRepair]_vars

(***************************************************************************)
(* repairJSON on a stream: a valid JSON document is serialised as          *)
(* JSON.stringify does and arrives one character after another; the text   *)
(* received so far is repaired.                                            *)
(***************************************************************************)
RECURSIVE EscapeChars(_)
\* the characters of a string between its quotes: " and \ are escaped
EscapeChars(cs) ==
    IF cs = <<>> THEN <<>>
    ELSE (IF Head(cs) \in {"\"", "\\"} THEN <<"\\", Head(cs)>> ELSE <<Head(cs)>>)
         \o EscapeChars(Tail(cs))

Quoted(cs) == <<"\"">> \o EscapeChars(cs) \o <<"\"">>

RECURSIVE JSONstringify(_)
RECURSIVE StringifyElements(_, _)
RECURSIVE StringifyMembers(_, _)

\* JSON.stringify(v), without indentation
JSONstringify(v) ==
    CASE v[1] = "null" -> <<"n", "u", "l", "l">>
      [] v[1] = "bool" -> IF v[2] THEN <<"t", "r", "u", "e">> ELSE <<"f", "a", "l", "s", "e">>
      [] v[1] = "num" -> IF v[2] < 0 THEN <<"-">> \o DigitsOf(0 - v[2]) ELSE DigitsOf(v[2])
      [] v[1] = "str" -> Quoted(v[2])
      [] v[1] = "arr" -> <<"[">> \o StringifyElements(v[2], 1) \o <<"]">>
      [] v[1] = "obj" -> <<"{">> \o StringifyMembers(v[2], DOMAIN v[2]) \o <<"}">>

StringifyElements(vs, j) ==
    IF j > Len(vs) THEN <<>>
    ELSE (IF j > 1 THEN <<",">> ELSE <<>>)
         \o JSONstringify(vs[j]) \o StringifyElements(vs, j + 1)

\* the members of the keys not yet written
StringifyMembers(f, keys) ==
    IF keys = {} THEN <<>>
    ELSE LET key == CHOOSE k \in keys : \A h \in keys : Len(k) <= Len(h)
         IN  (IF keys # DOMAIN f THEN <<",">> ELSE <<>>)
             \o Quoted(key) \o <<":">> \o JSONstringify(f[key])
             \o StringifyMembers(f, keys \ {key})

\* the nesting depth of the documents
MaxDepth == 2

\* the values a container of a document holds besides containers
Atoms == { <<"num", 12>>, <<"bool", TRUE>>, <<"str", <<"}", "\"", ",">>>> }

KeyA == <<"a">>

KeyAB == <<"a", "b">>

RECURSIVE Nested(_)
\* the values of nesting depth at most d
Nested(d) ==
    IF d = 0 THEN Atoms
    ELSE Atoms \cup { <<"arr", <<>>>>, <<"obj", <<>>>> }
         \cup { <<"arr", <<v>>>> : v \in Nested(d - 1) }
         \cup { <<"obj", (KeyA :> v)>> : v \in Nested(d - 1) }
         \cup { <<"arr", <<v, t>>>> : v \in Nested(d - 1), t \in Atoms }
         \cup { <<"obj", (KeyA :> v) @@ (KeyAB :> t)>> : v \in Nested(d - 1), t \in Atoms }

\* a document is any JSON value
Docs ==
    Nested(MaxDepth)
    \cup { <<"null">>, <<"bool", FALSE>>, <<"num", 0>>, <<"num", 0 - 5>>,
           <<"str", <<>>>>, <<"str", <<"a", "\\">>>>, <<"str", <<"[", " ">>>> }

InitStream ==
    /\ VaultNew
    /\ op = "new"
    /\ doc \in Docs
    /\ raw = <<>>
    /\ res = NoResult
    /\ res2 = NoResult
    /\ ToolsIdle

\* the next character of the document arrives
Receive ==
    /\ Len(raw) < Len(JSONstringify(doc))
    /\ raw' = Take(JSONstringify(doc), Len(raw) + 1)
    /\ res' = NoResult
    /\ op' = "recv"
    /\ UNCHANGED <<vaultVars, res2, doc, scanVars, extractVars, workerVars>>

\* repairJSON of the text received so far
RepairPrefix ==
    /\ op \in {"new", "recv"}
    /\ res' = repairJSON(raw)
    /\ op' = "prefix"
    /\ UNCHANGED <<vaultVars, raw, res2, doc, scanVars, extractVars, workerVars>>

NextStream == Receive \/ RepairPrefix

SpecStream == InitStream /\ [][NextStream]_vars

(***************************************************************************)
(* A PIIVault with tokens of one and of two digits: the email addresses of *)
(* Users users are masked one after the other, and texts that hold the     *)
(* tokens 1 and 10 are unmasked.                                           *)
(***************************************************************************)
Users == 10

\* `user${i}@test.com`, shortened
UserEmail(i) == <<"u">> \o DigitsOf(i) \o <<"@", "t", ".", "c", "o">>

\* <EMAIL_i> in the delimiter style kind
UserTok(i, kind) == UTok(Chars(UEmail, i), EchoKinds[kind])

UnmaskTenInputs ==
    { << UserTok(1, 1), UserTok(10, 1) >>,
      << UserTok(10, 1), UserTok(1, 1) >>,
      << UserTok(10, 2), UProse(WHi), UserTok(1, 3) >>,
      << UserTok(1, 4), UserTok(10, 6), UserTok(1, 5) >>,
      << UserTok(10, 5), UserTok(100, 1), UserTok(1, 2) >>,
      << UserTok(2, 1), UserTok(10, 3), UserTok(1, 1), UserTok(9, 2) >>,
      << UProse(Chars(UEmail, 10)), UserTok(1, 6), UserTok(10, 4) >>,
      << UserTok(11, 1), UserTok(1, 3), UserTok(10, 2) >>,
      << UserTok(10, 6), UserTok(1, 6) >>,
      << UserTok(1, 2), UProse(UserEmail(10)), UserTok(10, 2) >>,
      << UserTok(3, 1), UserTok(1, 1), UserTok(10, 1), UserTok(10, 5) >>,
      << UserTok(10, 3), UserTok(5, 4), UserTok(1, 5) >> }

\* vault.mask of a text with the email address of the next user
MaskUser ==
    /\ counters["EMAIL"] < Users
    /\ \E ws \in { <<UserEmail(counters["EMAIL"] + 1)>>,
                   <<WHi, UserEmail(counters["EMAIL"] + 1), UserEmail(1)>> } :
          MaskText(Join(ws))

\* vault.unmask of a text with the tokens 1 and 10
UnmaskTen ==
    /\ op \in {"new", "mask"}
    /\ \E ws \in UnmaskTenInputs : UnmaskText(UText(ws))
    /\ op' = "unmask"
    /\ sent' = <<>>

NextTen == MaskUser \/ UnmaskTen

SpecTen == Init /\ [][NextTen]_vars

(***************************************************************************)
(* scanText (core/scanner.js, as bundled in the worker code).              *)
(* A RegExp object is a record of its source, a pattern in the notation    *)
(* above, its set of flags and its lastIndex; no RegExp of the model       *)
(* carries the y flag.                                                     *)
(***************************************************************************)
RegExp(source, flags) == [source |-> source, flags |-> flags, lastIndex |-> 0]

\* the characters of the texts of the model
AnyChar ==
    Letter \cup Digit \cup Space \cup
    {".", "_", "%", "+", "-", "@", "<", ">", "[", "]", "(", ")", "{", "}", "\"",
     "\\", ",", ":", "/", "^", "$", "*", "?", "|", "!", "#", "=", Backtick}

CasePairs ==
    { <<"a", "A">>, <<"b", "B">>, <<"c", "C">>, <<"d", "D">>, <<"e", "E">>,
      <<"f", "F">>, <<"g", "G">>, <<"h", "H">>, <<"i", "I">>, <<"j", "J">>,
      <<"k", "K">>, <<"l", "L">>, <<"m", "M">>, <<"n", "N">>, <<"o", "O">>,
      <<"p", "P">>, <<"q", "Q">>, <<"r", "R">>, <<"s", "S">>, <<"t", "T">>,
      <<"u", "U">>, <<"v", "V">>, <<"w", "W">>, <<"x", "X">>, <<"y", "Y">>,
      <<"z", "Z">> }

\* a set of characters and the same letters in the other case
BothCases(S) ==
    S \cup {p[2] : p \in {p \in CasePairs : p[1] \in S}}
      \cup {p[1] : p \in {p \in CasePairs : p[2] \in S}}

RECURSIVE IgnoreCase(_)
\* what a pattern matches under the i flag
IgnoreCase(r) ==
    CASE r[1] \in {"set", "nlb", "nla"} -> <<r[1], BothCases(r[2])>>
      [] r[1] \in {"cat", "alt"} -> <<r[1], [j \in 1..Len(r[2]) |-> IgnoreCase(r[2][j])]>>
      [] r[1] \in {"rep", "lazy"} -> <<r[1], IgnoreCase(r[2]), r[3], r[4]>>
      [] OTHER -> r

\* the pattern a RegExp object matches with
Compiled(re) == IF "i" \in re.flags THEN IgnoreCase(re.source) ELSE re.source

\* the leftmost match of re in str that starts at offset pos or after it
Search(re, str, pos) ==
    MatchFirstFrom(Compiled(re),
                   IF Nullable(Compiled(re)) THEN {} ELSE FirstChars(Compiled(re)), str, pos)

\* re.test(str): with the g flag the search starts at re.lastIndex
test(re, str) ==
    IF "g" \in re.flags
    THEN re.lastIndex <= Len(str) /\ Search(re, str, re.lastIndex) # <<>>
    ELSE Search(re, str, 0) # <<>>

\* the RegExp object re after re.test(str): with the g flag lastIndex is the
\* end of the match found, or 0 if none was found
Tested(re, str) ==
    IF "g" \notin re.flags THEN re
    ELSE IF test(re, str) THEN [re EXCEPT !.lastIndex = Search(re, str, re.lastIndex)[1].end]
    ELSE [re EXCEPT !.lastIndex = 0]

RECURSIVE ParsePattern(_, _, _)
\* new RegExp(c) for a string c without groups, classes or alternatives: a
\* dot is any character but a line end, a backslash escapes the next
\* character, + * ? repeat the atom before them, ^ and $ are the two ends,
\* any other character is itself; acc is the atoms parsed before offset i
ParsePattern(c, i, acc) ==
    IF i >= Len(c) THEN RegExp(Cat(acc), {})
    ELSE LET ch == c[i + 1]
             last == Len(acc)
             quantified(lo, hi) ==
                 ParsePattern(c, i + 1, [acc EXCEPT ![last] = <<"rep", acc[last], lo, hi>>])
         IN  CASE ch = "\\" /\ i + 1 < Len(c) ->
                    ParsePattern(c, i + 2,
                        Append(acc, IF c[i + 2] = "d" THEN <<"set", Digit>> ELSE Chr(c[i + 2])))
               [] ch = "." -> ParsePattern(c, i + 1, Append(acc, <<"set", AnyChar \ {"\n", "\r"}>>))
               [] ch = "+" /\ last > 0 -> quantified(1, -1)
               [] ch = "*" /\ last > 0 -> quantified(0, -1)
               [] ch = "?" /\ last > 0 -> quantified(0, 1)
               [] ch = "^" -> ParsePattern(c, i + 1, Append(acc, <<"bos">>))
               [] ch = "$" -> ParsePattern(c, i + 1, Append(acc, <<"eos">>))
               [] OTHER -> ParsePattern(c, i + 1, Append(acc, Chr(ch)))

\* t.map(c => typeof c == "string" ? new RegExp(c) : c); an entry of the
\* allow list is [string |-> c] or [regexp |-> c]
AllowPatterns(t) ==
    [p \in 1..Len(t) |-> IF "string" \in DOMAIN t[p]
                         THEN ParsePattern(t[p].string, 0, <<>>)
                         ELSE t[p].regexp]

\* the names of two built-in rules
EMAIL == <<"E", "M", "A", "I", "L">>

IPV4 == <<"I", "P", "V", "4">>

\* the built-in rules, an object: its keys in insertion order
PATTERNS ==
    LET CREDIT_CARD == <<"C", "R", "E", "D", "I", "T", "_", "C", "A", "R", "D">>
        API_KEY == <<"A", "P", "I", "_", "K", "E", "Y">>
        SSN == <<"S", "S", "N">>
        AWS_KEY == <<"A", "W", "S", "_", "K", "E", "Y">>
        JWT == <<"J", "W", "T">>
        alnum == <<"set", Letter \cup Digit>>
        token == Star(<<"set", Letter \cup Digit \cup {"_", "-"}>>)
        d(n) == Times(<<"set", Digit>>, n)
    IN  << \* /\b(?:\d{4}[ -]?){3}\d{4}\b/
           <<CREDIT_CARD,
             RegExp(Cat(<< <<"wb">>, Times(Cat(<<d(4), Opt(<<"set", {" ", "-"}>>)>>), 3),
                           d(4), <<"wb">> >>), {})>>,
           \* /\b[A-Za-z0-9._%+-]+@[A-Za-z0-9.-]+\.[A-Za-z]{2,}\b/
           <<EMAIL, RegExp(EMAIL_RE, {})>>,
           \* /\b(sk-[a-zA-Z0-9]{20,}|ghp_[a-zA-Z0-9]{36}|gho_[a-zA-Z0-9]{36})\b/
           <<API_KEY,
             RegExp(Cat(<< <<"wb">>,
                           Alt(<< Cat(<<Lit(<<"s", "k", "-">>), <<"rep", alnum, 20, -1>>>>),
                                  Cat(<<Lit(<<"g", "h", "p", "_">>), Times(alnum, 36)>>),
                                  Cat(<<Lit(<<"g", "h", "o", "_">>), Times(alnum, 36)>>) >>),
                           <<"wb">> >>), {})>>,
           \* /\b\d{3}-\d{2}-\d{4}\b/
           <<SSN,
             RegExp(Cat(<< <<"wb">>, d(3), Chr("-"), d(2), Chr("-"), d(4), <<"wb">> >>), {})>>,
           \* /\b(?:(?:25[0-5]|2[0-4][0-9]|[01]?[0-9][0-9]?)\.){3}(?:25[0-5]|2[0-4][0-9]|[01]?[0-9][0-9]?)\b/
           <<IPV4, RegExp(IPV4_RE, {})>>,
           \* /\b(AKIA[0-9A-Z]{16})\b/
           <<AWS_KEY,
             RegExp(Cat(<< <<"wb">>, Lit(<<"A", "K", "I", "A">>),
                           Times(<<"set", Digit \cup Upper>>, 16), <<"wb">> >>), {})>>,
           \* /\beyJ[a-zA-Z0-9_-]*\.eyJ[a-zA-Z0-9_-]*\.[a-zA-Z0-9_-]*\b/
           <<JWT,
             RegExp(Cat(<< <<"wb">>, Lit(<<"e", "y", "J">>), token, Chr("."),
                           Lit(<<"e", "y", "J">>), token, Chr("."), token, <<"wb">> >>), {})>> >>

RECURSIVE WithCustomRulesNoOverride(_, _, _)
\* a mutant of WithCustomRules: a custom rule never replaces a rule of its name
WithCustomRulesNoOverride(i, s, k) ==
    IF k > Len(s) THEN i
    ELSE WithCustomRulesNoOverride(IF s[k].name # <<>> /\ s[k].pattern # <<>>
                                      /\ ~MapHas(i, s[k].name)
                                   THEN MapSet(i, s[k].name, s[k].pattern) ELSE i,
                                   s, k + 1)

RECURSIVE WithCustomRules(_, _, _)
\* for (let c of s) c.name && c.pattern && (i[c.name] = c.pattern); an absent
\* name is the empty string, an absent pattern <<>>
WithCustomRules(i, s, k) ==
    IF k > Len(s) THEN i
    ELSE WithCustomRules(IF s[k].name # <<>> /\ s[k].pattern # <<>>
                         THEN MapSet(i, s[k].name, s[k].pattern) ELSE i,
                         s, k + 1)

\* `[${c}_REDACTED]`
Placeholder(c) == <<"[">> \o c \o <<"_", "R", "E", "D", "A", "C", "T", "E", "D", "]">>

\* e.replace(g, by) for a string g: the first occurrence of g, if there is one
ReplaceString(e, g, by) ==
    IF ~Occurs(g, e) THEN e
    ELSE LET at == CHOOSE at \in 0..Len(e) :
                     OccursAt(e, g, at) /\ \A h \in 0..(at - 1) : ~OccursAt(e, g, h)
         IN  Take(e, at) \o by \o Drop(e, at + Len(g))

RECURSIVE RedactEach(_, _, _, _)
\* for (let g of f) e = e.replace(g, `[${c}_REDACTED]`)
RedactEach(e, f, k, c) ==
    IF k > Len(f) THEN e
    ELSE RedactEach(ReplaceString(e, f[k], Placeholder(c)), f, k + 1, c)

\* r.match(m) for a RegExp m with the g flag: the matched strings
match(r, m) == LET w == MatchAll(Compiled(m), r) IN [j \in 1..Len(w) |-> Matched(r, w[j])]

\* whether no pattern of the allow list is found in the matched string g
Survives(g, d) == ~\E p \in 1..Len(d) : test(d[p], g)

RECURSIVE some(_, _, _)
\* d.some(p => p.test(g)) from the p-th pattern on: whether one was found in
\* g, and the patterns after the calls of test made
some(d, g, p) ==
    IF p > Len(d) THEN [found |-> FALSE, d |-> d]
    ELSE IF test(d[p], g) THEN [found |-> TRUE, d |-> [d EXCEPT ![p] = Tested(d[p], g)]]
    ELSE some([d EXCEPT ![p] = Tested(d[p], g)], g, p + 1)

\* one step of w.filter(g => !d.some(p => p.test(g))): kept is the record of
\* the strings kept so far, f, and of the patterns d
Keep(kept, g, tried) ==
    [f |-> IF tried.found THEN kept.f ELSE Append(kept.f, g), d |-> tried.d]

RECURSIVE filter(_, _, _)
\* w.filter(g => !d.some(p => p.test(g))) from the k-th string of w on
filter(w, k, kept) ==
    IF k > Len(w) THEN kept
    ELSE filter(w, k + 1, Keep(kept, w[k], some(kept.d, w[k], 1)))

\* a mutant of Report: a rule whose matches are all allowed is reported too
ReportEmptyEntry(acc, w, c, kept, l) ==
    IF w = <<>> THEN [acc EXCEPT !.d = kept.d]
    ELSE [safe |-> acc.safe /\ kept.f = <<>>,
          findings |-> Append(acc.findings, [type |-> c, matches |-> kept.f]),
          text |-> IF l THEN RedactEach(acc.text, kept.f, 1, c) ELSE acc.text,
          d |-> kept.d]

\* if (f.length > 0 && (o = !1, a.push({type: c, matches: f}), l)) for (let
\* g of f) e = e.replace(...): w is the list of matches, kept what filter
\* returned for it
Report(acc, w, c, kept, l) ==
    IF kept.f = <<>> THEN [acc EXCEPT !.d = kept.d]
    ELSE [safe |-> FALSE,
          findings |-> Append(acc.findings, [type |-> c, matches |-> kept.f]),
          text |-> IF l THEN RedactEach(acc.text, kept.f, 1, c) ELSE acc.text,
          d |-> kept.d]

\* the matches of a rule, filtered
Filtered(w, d) == [w |-> w, kept |-> filter(w, 1, [f |-> <<>>, d |-> d])]

\* the body of the loop over the enabled rules, for the rule c of pattern h:
\* acc is {safe: o, findings: a, text: e} and the patterns d of the allow
\* list, r the text scanned, l whether to redact
ScanRule(acc, r, c, h, l) ==
    CHOOSE out \in {Report(acc, m.w, c, m.kept, l) :
                       m \in {Filtered(match(r, RegExp(h.source, {"g"})), acc.d)}} : TRUE

RECURSIVE ScanRules(_, _, _, _, _, _)
\* for (let c of u) { let h = i[c]; if (!h) continue; ... }
ScanRules(acc, r, u, k, i, l) ==
    IF k > Len(u) THEN acc
    ELSE ScanRules(IF MapHas(i, u[k]) THEN ScanRule(acc, r, u[k], MapGet(i, u[k]), l)
                   ELSE acc,
                   r, u, k + 1, i, l)

\* scanText(r, n, l, t, s): the text, the enabled rules, whether to redact,
\* the allow list, the custom rules; the result is {safe, findings, text}
\* and, as d, the patterns of the allow list after the call
scanText(r, n, l, t, s) ==
    LET i == WithCustomRules(PATTERNS, s, 1)
        u == IF Len(n) > 0 THEN n ELSE MapKeys(i)
    IN  ScanRules([safe |-> TRUE, findings |-> <<>>, text |-> r, d |-> AllowPatterns(t)],
                  r, u, 1, i, l)

\* the allow list t after a call that left its patterns as d: a RegExp of
\* the list is the object the call tested, a string is what it was
AllowAfter(t, d) ==
    [p \in 1..Len(t) |-> IF "string" \in DOMAIN t[p] THEN t[p] ELSE [regexp |-> d[p]]]

\* what scanText returns
Returned(out) == [safe |-> out.safe, findings |-> out.findings, text |-> out.text]

(***************************************************************************)
(* scanText on the texts, rule lists, allow lists and custom rules of its  *)
(* tests, and on texts where a matched string occurs a second time or      *)
(* inside another match.                                                   *)
(***************************************************************************)
TICKET_ID == <<"T", "I", "C", "K", "E", "T", "_", "I", "D">>

ScanTexts ==
    { <<"h", "i">>,
      <<"a", "@", "b", ".", "c", "o">>,
      <<"a", "@", "b", ".", "c", "o", " ", "a", "@", "b", ".", "c", "o">>,
      <<"x", ".", "a", "@", "b", ".", "c", "o", " ", "a", "@", "b", ".", "c", "o">>,
      <<"a", "@", "b", ".", "c", "o", "1", " ", "a", "@", "b", ".", "c", "o">>,
      <<"b", "@", "1", ".", "1", ".", "1", ".", "1", ".", "c", "o">>,
      <<"a", "+", "b", "@", "c", ".", "c", "o">>,
      <<"T", "-", "1", " ", "t", "-", "2">>,
      <<"T", "-", "9">>,
      <<"a", "@", "b", ".", "c", "o", " ", "T", "-", "1">> }

ScanRuleLists ==
    { <<>>, <<EMAIL>>, <<IPV4, EMAIL>>, <<TICKET_ID>>, <<<<"N", "O", "P", "E">>>> }

ScanAllowLists ==
    { <<>>,
      \* [/^x/]
      << [regexp |-> RegExp(Cat(<< <<"bos">>, Chr("x") >>), {})] >>,
      << [string |-> <<"a", "@", "b", ".", "c", "o">>] >>,
      << [string |-> <<"a", "+", "b", "@", "c", ".", "c", "o">>] >> }

ScanCustomRules ==
    { <<>>,
      \* /T-\d/g
      << [name |-> TICKET_ID,
          pattern |-> RegExp(Cat(<<Lit(<<"T", "-">>), <<"set", Digit>>>>), {"g"})] >>,
      \* /t-\d/i
      << [name |-> TICKET_ID,
          pattern |-> RegExp(Cat(<<Lit(<<"t", "-">>), <<"set", Digit>>>>), {"i"})] >>,
      \* /T-\d/g and /@b/
      << [name |-> TICKET_ID,
          pattern |-> RegExp(Cat(<<Lit(<<"T", "-">>), <<"set", Digit>>>>), {"g"})],
         [name |-> EMAIL, pattern |-> RegExp(Lit(<<"@", "b">>), {})] >> }

ScanInputs ==
    [text : ScanTexts, rules : ScanRuleLists, redact : BOOLEAN,
     allow : ScanAllowLists, customRules : ScanCustomRules]

InitScan ==
    /\ VaultNew
    /\ op = "new"
    /\ RepairIdle
    /\ scanArgs \in ScanInputs
    /\ scanRes = <<>>
    /\ scanRes2 = <<>>
    /\ extractArgs = <<>>
    /\ extractRes = <<>>
    /\ reply = <<>>
    /\ fixedStr = <<>>
    /\ guard = <<>>
    /\ plugins = <<>>
    /\ kernel = <<>>
    /\ TransportIdle
    /\ HookIdle

\* scanText(text, rules, redact, allow, customRules)
ScanText ==
    /\ op = "new"
    /\ \E out \in {scanText(scanArgs.text, scanArgs.rules, scanArgs.redact,
                             scanArgs.allow, scanArgs.customRules)} :
          /\ scanRes' = Returned(out)
          /\ scanArgs' = [scanArgs EXCEPT !.allow = AllowAfter(scanArgs.allow, out.d)]
    /\ op' = "scan"
    /\ UNCHANGED <<vaultVars, raw, res, res2, doc, scanRes2, extractVars, workerVars>>

NextScan == ScanText

SpecScan == InitScan /\ [][NextScan]_vars

(***************************************************************************)
(* The same scanText call made twice with the same objects, with or        *)
(* without a call on another text between the two; an allow list can hold  *)
(* a RegExp with the g flag.                                               *)
(***************************************************************************)
ScanTwiceAllowLists ==
    ScanAllowLists \cup
    { \* [/@b/g]
      << [regexp |-> RegExp(Lit(<<"@", "b">>), {"g"})] >> }

ScanTwiceInputs ==
    [text : ScanTexts, rules : ScanRuleLists, redact : BOOLEAN,
     allow : ScanTwiceAllowLists, customRules : ScanCustomRules]

\* the texts of the call between the two
OtherTexts == { <<"h", "i">>, <<"a", "@", "b", ".", "c", "o">> }

InitScanTwice ==
    /\ VaultNew
    /\ op = "new"
    /\ RepairIdle
    /\ scanArgs \in ScanTwiceInputs
    /\ scanRes = <<>>
    /\ scanRes2 = <<>>
    /\ extractArgs = <<>>
    /\ extractRes = <<>>
    /\ reply = <<>>
    /\ fixedStr = <<>>
    /\ guard = <<>>
    /\ plugins = <<>>
    /\ kernel = <<>>
    /\ TransportIdle
    /\ HookIdle

\* scanText(other, rules, redact, allow, customRules), its result dropped
ScanOther ==
    /\ op = "scan"
    /\ \E other \in OtherTexts :
          scanArgs' = [scanArgs EXCEPT !.allow =
                          AllowAfter(scanArgs.allow,
                                     scanText(other, scanArgs.rules, scanArgs.redact,
                                              scanArgs.allow, scanArgs.customRules).d)]
    /\ op' = "other"
    /\ UNCHANGED <<vaultVars, raw, res, res2, doc, scanRes, scanRes2, extractVars, workerVars>>

\* scanText(text, rules, redact, allow, customRules) once more
ScanAgain ==
    /\ op \in {"scan", "other"}
    /\ \E out \in {scanText(scanArgs.text, scanArgs.rules, scanArgs.redact,
                             scanArgs.allow, scanArgs.customRules)} :
          /\ scanRes2' = Returned(out)
          /\ scanArgs' = [scanArgs EXCEPT !.allow = AllowAfter(scanArgs.allow, out.d)]
    /\ op' = "again"
    /\ UNCHANGED <<vaultVars, raw, res, res2, doc, scanRes, extractVars, workerVars>>

NextScanTwice == ScanText \/ ScanOther \/ ScanAgain

SpecScanTwice == InitScanTwice /\ [][NextScanTwice]_vars

(***************************************************************************)
(* extractJSON (core/repair.js).                                           *)
(***************************************************************************)
\* [\s\S]
AnyOne == <<"set", AnyChar>>

\* /<think>[\s\S]*?<\/think>/gi
ThinkSpanRE ==
    RegExp(Cat(<<Lit(<<"<", "t", "h", "i", "n", "k", ">">>), Lazy(AnyOne), Lit(<<"<", "/", "t", "h", "i", "n", "k", ">">>)>>), {"g", "i"})

\* /<think>[\s\S]*$/gi
ThinkOpenRE ==
    RegExp(Cat(<<Lit(<<"<", "t", "h", "i", "n", "k", ">">>), Star(AnyOne), <<"eos">> >>), {"g", "i"})

\* a first step that removes the closed traces only
StripThinkClosedOnly(text) ==
    ReplaceAll(text, Compiled(ThinkSpanRE), <<>>)

\* "Step 1: Remove <think>...</think> reasoning traces", then the "Partial
\* unclosed tag"
StripThink(text) ==
    ReplaceAll(ReplaceAll(text, Compiled(ThinkSpanRE), <<>>), Compiled(ThinkOpenRE), <<>>)

\* ```(?:json|json5|javascript|js)?\s*, the part of codeBlockRegex before its
\* group
CodeBlockOpenRE ==
    RegExp(Cat(<<Lit(Fence),
                 Opt(Alt(<<Lit(<<"j", "s", "o", "n">>), Lit(<<"j", "s", "o", "n", "5">>), Lit(<<"j", "a", "v", "a", "s", "c", "r", "i", "p", "t">>), Lit(<<"j", "s">>)>>)),
                 Star(<<"set", Space>>)>>), {"g", "i"})

\* /```(?:json|json5|javascript|js)?\s*([\s\S]*?)(?:```|$)/gi
codeBlockRegex ==
    RegExp(Cat(<<CodeBlockOpenRE.source, Lazy(AnyOne), Alt(<<Lit(Fence), <<"eos">> >>)>>),
           {"g", "i"})

\* match[1] of a match m of codeBlockRegex in clean.  Whatever the opening
\* part takes, the rest of the pattern matches, so the group starts where
\* the first way to match the opening part ends; the group is lazy, so it
\* ends at the first fence after that, or at the end of the text
Group1(clean, m) ==
    LET from == Ends(Compiled(CodeBlockOpenRE), clean, m.start)[1]
        to == IF m.end - 3 >= from /\ OccursAt(clean, Fence, m.end - 3)
              THEN m.end - 3 ELSE m.end
    IN  SubSeq(clean, from + 1, to)

\* "Step 2: Extract from markdown code blocks first": the loop over
\* codeBlockRegex.exec(clean)
CodeBlocks(clean) ==
    LET ms == MatchAll(Compiled(codeBlockRegex), clean)
    IN  SelectSeq([k \in 1..Len(ms) |-> Trim(Group1(clean, ms[k]))],
                  LAMBDA content : content # <<>> /\ content[1] \in {"{", "["})

RECURSIVE FindCandidatesComplete(_, _, _)
\* the loop of step 3 without "Handle incomplete JSON"
FindCandidatesComplete(clean, i, st) ==
    IF i >= Len(clean)
    THEN st.jsonCandidates
    ELSE LET char == clean[i + 1]
         IN  FindCandidatesComplete(clean, i + 1,
               IF st.escaped THEN [st EXCEPT !.escaped = FALSE]
               ELSE IF char = "\\" /\ st.inString THEN [st EXCEPT !.escaped = TRUE]
               ELSE IF char = "\"" THEN [st EXCEPT !.inString = ~st.inString]
               ELSE IF st.inString THEN st
               ELSE IF char \in {"{", "["}
               THEN [st EXCEPT !.start = IF st.depth = 0 THEN i ELSE st.start,
                               !.depth = st.depth + 1]
               ELSE IF char \in {"}", "]"}
               THEN IF st.depth - 1 = 0 /\ st.start # -1
                    THEN [st EXCEPT !.depth = 0,
                                    !.jsonCandidates =
                                        Append(st.jsonCandidates,
                                               SubSeq(clean, st.start + 1, i + 1)),
                                    !.start = -1]
                    ELSE [st EXCEPT !.depth = st.depth - 1]
               ELSE st)

RECURSIVE FindCandidates(_, _, _)
\* "Step 3: No code blocks - find raw JSON in the text": the loop from
\* offset i on and "Handle incomplete JSON"; st is the record of depth,
\* start, inString, escaped and jsonCandidates
FindCandidates(clean, i, st) ==
    IF i >= Len(clean)
    THEN IF st.start # -1 /\ st.depth > 0
         THEN Append(st.jsonCandidates, Drop(clean, st.start))
         ELSE st.jsonCandidates
    ELSE LET char == clean[i + 1]
         IN  FindCandidates(clean, i + 1,
               IF st.escaped THEN [st EXCEPT !.escaped = FALSE]
               ELSE IF char = "\\" /\ st.inString THEN [st EXCEPT !.escaped = TRUE]
               ELSE IF char = "\"" THEN [st EXCEPT !.inString = ~st.inString]
               ELSE IF st.inString THEN st
               ELSE IF char \in {"{", "["}
               THEN [st EXCEPT !.start = IF st.depth = 0 THEN i ELSE st.start,
                               !.depth = st.depth + 1]
               ELSE IF char \in {"}", "]"}
               THEN IF st.depth - 1 = 0 /\ st.start # -1
                    THEN [st EXCEPT !.depth = 0,
                                    !.jsonCandidates =
                                        Append(st.jsonCandidates,
                                               SubSeq(clean, st.start + 1, i + 1)),
                                    !.start = -1]
                    ELSE [st EXCEPT !.depth = st.depth - 1]
               ELSE st)

\* a fallback that does not trim
FallbackUntrimmed(clean) ==
    LET found == {i \in 0..(Len(clean) - 1) : clean[i + 1] \in {"{", "["}}
    IN  IF found = {} THEN clean
        ELSE Drop(clean, CHOOSE i \in found : \A j \in found : i <= j)

\* "Step 4: Fallback - try to find anything that looks like JSON start"
Fallback(clean) ==
    LET found == {i \in 0..(Len(clean) - 1) : clean[i + 1] \in {"{", "["}}
    IN  IF found = {} THEN Trim(clean)
        ELSE Trim(Drop(clean, CHOOSE i \in found : \A j \in found : i <= j))

\* last ? list[list.length - 1] : list[0]
Pick(list, last) == IF last THEN list[Len(list)] ELSE list[1]

\* extractJSON without its first step
ExtractClean(clean, last) ==
    LET codeBlocks == CodeBlocks(clean)
        jsonCandidates ==
            FindCandidates(clean, 0, [depth |-> 0, start |-> -1, inString |-> FALSE,
                                      escaped |-> FALSE, jsonCandidates |-> <<>>])
    IN  IF codeBlocks # <<>> THEN Pick(codeBlocks, last)
        ELSE IF jsonCandidates # <<>> THEN Pick(jsonCandidates, last)
        ELSE Fallback(clean)

\* extractJSON(text, {last})
extractJSON(text, last) ==
    IF text = <<>> THEN <<>> ELSE ExtractClean(StripThink(text), last)

\* repairJSON(raw, {extract: true}) with a pre-processing that ignores the
\* option
repairJSONStripped(text) == RepairText(stripMarkdown(text))

\* repairJSON(raw, {extract: true})
repairJSONExtract(text) == RepairText(extractJSON(text, TRUE))

(***************************************************************************)
(* extractJSON on a text made of at most MaxParts parts: the tags of a     *)
(* reasoning trace, a whole trace, fences, fenced blocks, JSON values      *)
(* (whole and cut), prose.  The kind of a part says what it is for a       *)
(* reader of the text: "open" and "close" are the two tags, "trace" a      *)
(* whole trace, "fence" a fence, "block" a fenced block and its content,   *)
(* "plain" anything else.                                                  *)
(***************************************************************************)
MaxParts == 3

Part(kind, text) == [kind |-> kind, text |-> text]

ExtractParts ==
    { Part("open", <<"<", "t", "h", "i", "n", "k", ">">>),
      Part("close", <<"<", "/", "t", "h", "i", "n", "k", ">">>),
      Part("trace", <<"<", "T", "h", "i", "n", "k", ">", "{", "9", "}", "<", "/", "T", "H", "I", "N", "K", ">">>),
      Part("fence", Fence),
      Part("plain", <<"j", "s", "o", "n", "\n">>),
      Part("plain", <<"{", "\"", "a", "\"", ":", "1", "}">>),
      Part("plain", <<"[", "2", "]">>),
      Part("plain", <<"{", "\"", "b", "\"", ":", "[", "3", ",">>),
      Part("plain", <<"{", "\"", "c", "\"", ":", "t", "r", "u", "e">>),
      Part("plain", <<"x", " ">>),
      Part("plain", <<"}">>),
      Part("plain", <<"\"">>),
      [kind |-> "block", text |-> Fence \o <<"j", "s", "o", "n", "\n", "[", "4", "]">> \o Fence,
       content |-> <<"[", "4", "]">>],
      [kind |-> "block", text |-> Fence \o <<"j", "s", "o", "n", "5", "\n", "[", "5", "]">> \o Fence,
       content |-> <<"[", "5", "]">>] }

ExtractInputs == UNION {[1..n -> ExtractParts] : n \in 0..MaxParts}

\* the text of a sequence of parts
TextOf(parts) == Concat([k \in 1..Len(parts) |-> parts[k].text])

InitExtract ==
    /\ VaultNew
    /\ op = "new"
    /\ RepairIdle
    /\ scanArgs = <<>>
    /\ scanRes = <<>>
    /\ scanRes2 = <<>>
    /\ \E parts \in ExtractInputs : extractArgs = [parts |-> parts, last |-> TRUE]
    /\ extractRes = <<>>
    /\ reply = <<>>
    /\ fixedStr = <<>>
    /\ guard = <<>>
    /\ plugins = <<>>
    /\ kernel = <<>>
    /\ TransportIdle
    /\ HookIdle

\* extractJSON(text), extractJSON(text, {last: false})
Extract ==
    /\ op = "new"
    /\ \E last \in BOOLEAN :
          /\ extractArgs' = [extractArgs EXCEPT !.last = last]
          /\ extractRes' = extractJSON(TextOf(extractArgs.parts), last)
    /\ op' = "extract"
    /\ UNCHANGED <<vaultVars, raw, res, res2, doc, scanVars, workerVars>>

\* repairJSON(text, {extract: true})
RepairExtract ==
    /\ op = "new"
    /\ res' = repairJSONExtract(TextOf(extractArgs.parts))
    /\ op' = "repair"
    /\ UNCHANGED <<vaultVars, raw, res2, doc, scanVars, extractVars, workerVars>>

NextExtract == Extract \/ RepairExtract

SpecExtract == InitExtract /\ [][NextExtract]_vars

(***************************************************************************)
(* The C kernel, repair_json: OUTPUT is the part of the buffer written so  *)
(* far (out_idx is its length), STACK the part of the array in use (top is *)
(* its length less one).                                                   *)
(***************************************************************************)
\* #define BUFFER_SIZE 2097152
BUFFER_SIZE == 2097152

\* char STACK[1024]
StackSize == 1024

\* void push(char c) { if (top < 1023) STACK[++top] = c; }
push(STACK, c) == IF Len(STACK) - 1 < StackSize - 1 THEN Append(STACK, c) ELSE STACK

\* char peek()
peek(STACK) == IF Len(STACK) - 1 >= 0 THEN STACK[Len(STACK)] ELSE "NUL"

\* one iteration of the loop of repair_json on the character c; k is the
\* record of OUTPUT, STACK, in_string, escaped and of whether the loop was
\* left by break
KernelChar(k, c) ==
    IF k.broke \/ Len(k.OUTPUT) >= BUFFER_SIZE - 1 THEN [k EXCEPT !.broke = TRUE]
    ELSE IF k.escaped THEN [k EXCEPT !.OUTPUT = Append(@, c), !.escaped = FALSE]
    ELSE IF c = "\\" THEN [k EXCEPT !.OUTPUT = Append(@, c), !.escaped = TRUE]
    ELSE IF c = "\"" THEN [k EXCEPT !.OUTPUT = Append(@, c), !.in_string = ~k.in_string]
    ELSE IF k.in_string THEN [k EXCEPT !.OUTPUT = Append(@, c)]
    ELSE IF c = "{" THEN [k EXCEPT !.OUTPUT = Append(@, c), !.STACK = push(@, "}")]
    ELSE IF c = "[" THEN [k EXCEPT !.OUTPUT = Append(@, c), !.STACK = push(@, "]")]
    ELSE IF c \in {"}", "]"} /\ peek(k.STACK) = c
    THEN [k EXCEPT !.OUTPUT = Append(@, c), !.STACK = Pop(@)]
    ELSE [k EXCEPT !.OUTPUT = Append(@, c)]

RECURSIVE KernelLoop(_, _, _, _)
\* the iterations of the loop for i = lo .. hi: the first half of them,
\* then from the state half they leave the second half
KernelLoop(input, lo, hi, k) ==
    IF lo > hi THEN k
    ELSE IF lo = hi THEN KernelChar(k, input[lo + 1])
    ELSE CHOOSE after \in {KernelLoop(input, (lo + hi) \div 2 + 1, hi, half) :
                              half \in {KernelLoop(input, lo, (lo + hi) \div 2, k)}} : TRUE

\* what follows the loop: the closing quote, then the closers popped
KernelClose(k) ==
    (IF k.in_string THEN Append(k.OUTPUT, "\"") ELSE k.OUTPUT)
        \o [j \in 1..Len(k.STACK) |-> k.STACK[Len(k.STACK) - j + 1]]

\* the state of the kernel after the loop on input
KernelScan(input) ==
    KernelLoop(input, 0, Len(input) - 1,
               [OUTPUT |-> <<>>, STACK |-> <<>>, in_string |-> FALSE, escaped |-> FALSE,
                broke |-> FALSE])

\* the writes after the loop stay inside OUTPUT: the loop checks out_idx,
\* the closing code does not
Fits(k) == Len(k.OUTPUT) + (IF k.in_string THEN 1 ELSE 0) + Len(k.STACK) + 1 <= BUFFER_SIZE

\* the strings repair_json(input) can return: when the closing code writes
\* past the end of OUTPUT the behaviour is undefined, and the string read
\* back is the whole of what was written or what fits the buffer
repair_json(input) ==
    IF Fits(KernelScan(input)) THEN {KernelClose(KernelScan(input))}
    ELSE {KernelClose(KernelScan(input)), Take(KernelClose(KernelScan(input)), BUFFER_SIZE)}

(***************************************************************************)
(* The kernel on pre-processed texts: the texts of the repair engine after *)
(* stripMarkdown, and texts that nest MaxNest arrays or more.              *)
(***************************************************************************)
\* the deepest nesting of the texts
MaxNest == 1025

\* n arrays, one inside the other, none closed
Nest(n) == [j \in 1..n |-> "["]

DeepInputs ==
    {Nest(n) : n \in (StackSize - 1)..MaxNest}
        \cup {<<"{", "\"", "a", "\"", ":">> \o Nest(n) : n \in (StackSize - 1)..MaxNest}

KernelInputs == {stripMarkdown(Concat(ls)) : ls \in RepairInputs} \cup DeepInputs

InitKernel ==
    /\ VaultNew
    /\ op = "new"
    /\ raw \in KernelInputs
    /\ res = NoResult
    /\ res2 = NoResult
    /\ doc = <<"null">>
    /\ ToolsIdle

\* fixedStr = repair_c(cleanText)
RepairC ==
    /\ op = "new"
    /\ fixedStr' \in repair_json(raw)
    /\ op' = "kernel"
    /\ UNCHANGED <<vaultVars, raw, res, res2, doc, scanVars, extractVars, reply,
                   transportVars, hookVars, guard, plugins, kernel>>

\* the in-process engine on the same text, for a text it can take
RepairJs ==
    /\ op = "kernel"
    /\ raw \notin DeepInputs
    /\ res' = RepairText(raw)
    /\ op' = "both"
    /\ UNCHANGED <<vaultVars, raw, res2, doc, scanVars, extractVars, workerVars>>

NextKernel == RepairC \/ RepairJs

SpecKernel == InitKernel /\ [][NextKernel]_vars

(***************************************************************************)
(* The kernel on texts as long as its buffer.  A text is a sequence of     *)
(* runs, each one character repeated; the kernel's state k holds out_idx   *)
(* in place of the characters written: after the loop the indices          *)
(* 0 .. out_idx - 1 of OUTPUT are written.                                 *)
(***************************************************************************)
\* how far from BUFFER_SIZE the lengths of the long texts lie, at most
Near == 3

\* the characters the loop treats like any other
Plain(c) == c \notin {"\\", "\"", "{", "[", "}", "]"}

\* one iteration of the loop of repair_json on the character c
KernelIndex(k, c) ==
    IF k.broke \/ k.out_idx >= BUFFER_SIZE - 1 THEN [k EXCEPT !.broke = TRUE]
    ELSE IF k.escaped THEN [k EXCEPT !.out_idx = @ + 1, !.escaped = FALSE]
    ELSE IF c = "\\" THEN [k EXCEPT !.out_idx = @ + 1, !.escaped = TRUE]
    ELSE IF c = "\"" THEN [k EXCEPT !.out_idx = @ + 1, !.in_string = ~k.in_string]
    ELSE IF k.in_string THEN [k EXCEPT !.out_idx = @ + 1]
    ELSE IF c = "{" THEN [k EXCEPT !.out_idx = @ + 1, !.STACK = push(@, "}")]
    ELSE IF c = "[" THEN [k EXCEPT !.out_idx = @ + 1, !.STACK = push(@, "]")]
    ELSE IF c \in {"}", "]"} /\ peek(k.STACK) = c
    THEN [k EXCEPT !.out_idx = @ + 1, !.STACK = Pop(@)]
    ELSE [k EXCEPT !.out_idx = @ + 1]

RECURSIVE KernelRun(_, _, _)
\* n iterations of the loop on the same character c: a plain character that
\* follows no backslash changes out_idx alone, by one as long as out_idx is
\* less than BUFFER_SIZE - 1, and the iteration after that leaves the loop
KernelRun(k, c, n) ==
    IF n = 0 THEN k
    ELSE IF Plain(c) /\ ~k.escaped /\ ~k.broke
    THEN IF n <= BUFFER_SIZE - 1 - k.out_idx
         THEN [k EXCEPT !.out_idx = @ + n]
         ELSE [k EXCEPT !.out_idx = BUFFER_SIZE - 1, !.broke = TRUE]
    ELSE KernelRun(KernelIndex(k, c), c, n - 1)

RECURSIVE KernelRuns(_, _, _)
\* the loop on the runs j, j + 1, ... of the text
KernelRuns(k, runs, j) ==
    IF j > Len(runs) THEN k
    ELSE KernelRuns(KernelRun(k, runs[j].char, runs[j].count), runs, j + 1)

\* the indices of OUTPUT that repair_json writes for the text: those of the
\* loop (0 .. loop - 1), that of the closing quote if one is appended, those
\* of the closers popped, and that of the terminating NUL
KernelWrites(runs) ==
    LET k == KernelRuns([out_idx |-> 0, STACK |-> <<>>, in_string |-> FALSE,
                         escaped |-> FALSE, broke |-> FALSE], runs, 1)
        quoted == IF k.in_string THEN 1 ELSE 0
    IN  [loop |-> k.out_idx,
         quote |-> IF k.in_string THEN <<k.out_idx>> ELSE <<>>,
         closers |-> [j \in 1..Len(k.STACK) |-> k.out_idx + quoted + j - 1],
         NUL |-> k.out_idx + quoted + Len(k.STACK)]

\* a text as runs: the characters of a short text, one run each
RunsOf(text) == [j \in 1..Len(text) |-> [char |-> text[j], count |-> 1]]

RECURSIVE RunsLen(_)
\* strlen(input)
RunsLen(runs) == IF runs = <<>> THEN 0 ELSE Head(runs).count + RunsLen(Tail(runs))

\* how the long texts begin and how they end
LongEnds ==
    { <<>>,
      <<"[">>,
      <<"]">>,
      <<"\"">>,
      <<"\\">>,
      <<"{", "\"", "a", "\"", ":", "[">>,
      <<"[", "[", "}", "]">> }

\* the lengths of the run in the middle of a text with ends characters at
\* its ends: those that make the text's length Near or less from
\* BUFFER_SIZE, and short ones
Counts(ends) ==
    (0..Near) \cup {BUFFER_SIZE - d : d \in (ends - Near)..(ends + Near)}

LongInputs ==
    UNION {{RunsOf(ends[1]) \o <<[char |-> c, count |-> n]>> \o RunsOf(ends[2]) :
               c \in {"a", " "}, n \in Counts(Len(ends[1]) + Len(ends[2]))} :
           ends \in LongEnds \X LongEnds}

InitLong ==
    /\ VaultNew
    /\ op = "new"
    /\ RepairIdle
    /\ scanArgs = <<>>
    /\ scanRes = <<>>
    /\ scanRes2 = <<>>
    /\ extractArgs = <<>>
    /\ extractRes = <<>>
    /\ reply = <<>>
    /\ fixedStr = <<>>
    /\ guard = <<>>
    /\ plugins = <<>>
    /\ TransportIdle
    /\ HookIdle
    /\ kernel \in {[input |-> runs, writes |-> <<>>] : runs \in LongInputs}

\* repair_c(cleanText) on a long text
RepairLong ==
    /\ op = "new"
    /\ kernel' = [kernel EXCEPT !.writes = KernelWrites(kernel.input)]
    /\ op' = "kernel"
    /\ UNCHANGED <<vaultVars, raw, res, res2, doc, scanVars, extractVars, reply,
                   fixedStr, transportVars, hookVars, guard, plugins>>

NextLong == RepairLong

SpecLong == InitLong /\ [][NextLong]_vars

(***************************************************************************)
(* The worker transport of useAIGuard: post, the worker's answer, the      *)
(* listeners onmessage and onerror, and the timeout of a request.          *)
(***************************************************************************)
MaxRequests == 3

RequestIds == 1..MaxRequests

\* a map that forgets nothing
deleteNothing(pending, id) == pending

\* pendingRequests.delete(id)
delete(pending, id) == pending \ {id}

\* a post that arms no timeout
setTimeoutNever(armed, id) == armed

\* setTimeout(..., timeout) of post: the timers armed afterwards
setTimeout(armed, id) == armed \cup {id}

\* a call of the resolve or the reject of the promise of a request
Settle(how, by, id) == [how |-> how, by |-> by, id |-> id]

Log(log, id, call) == [log EXCEPT ![id] = Append(@, call)]

InitTransport ==
    /\ VaultNew
    /\ op = "new"
    /\ RepairIdle
    /\ scanArgs = <<>>
    /\ scanRes = <<>>
    /\ scanRes2 = <<>>
    /\ extractArgs = <<>>
    /\ extractRes = <<>>
    /\ reply = <<>>
    /\ fixedStr = <<>>
    /\ guard = <<>>
    /\ plugins = <<>>
    /\ kernel = <<>>
    /\ HookIdle
    /\ nextId = 0
    /\ pendingRequests = {}
    /\ timers = {}
    /\ posted = {}
    /\ responses = {}
    /\ settled = [id \in RequestIds |-> <<>>]

transportRest == <<vaultVars, op, raw, res, res2, doc, scanVars, extractVars, reply,
                   fixedStr, hookVars, guard, plugins, kernel>>

\* post(type, payload, options): a fresh id, its timeout armed, its entry set,
\* its message posted
Post ==
    /\ nextId < MaxRequests
    /\ LET id == nextId + 1
       IN  /\ nextId' = id
           /\ timers' = setTimeout(timers, id)
           /\ pendingRequests' = pendingRequests \cup {id}
           /\ posted' = posted \cup {[id |-> id]}
    /\ UNCHANGED <<responses, settled, transportRest>>

\* the worker handles one message and posts its answer under the same id
WorkerReply ==
    \E m \in posted, success \in BOOLEAN :
        /\ posted' = posted \ {m}
        /\ responses' = responses \cup {[id |-> m.id, success |-> success]}
        /\ UNCHANGED <<nextId, pendingRequests, timers, settled, transportRest>>

\* sharedWorker.onmessage
OnMessage ==
    \E e \in responses :
        /\ responses' = responses \ {e}
        /\ IF e.id \in pendingRequests
           THEN /\ timers' = timers \ {e.id}
                /\ settled' = Log(settled, e.id,
                                  Settle(IF e.success THEN "resolve" ELSE "reject",
                                         "message", e.id))
                /\ pendingRequests' = delete(pendingRequests, e.id)
           ELSE UNCHANGED <<timers, settled, pendingRequests>>
        /\ UNCHANGED <<nextId, posted, transportRest>>

\* the callback of the setTimeout of post, for the request id
TimeoutOf(id) ==
    /\ id \in timers
    /\ timers' = timers \ {id}
    /\ pendingRequests' = delete(pendingRequests, id)
    /\ settled' = Log(settled, id, Settle("reject", "timeout", id))
    /\ UNCHANGED <<nextId, posted, responses, transportRest>>

Timeout == \E id \in RequestIds : TimeoutOf(id)

RECURSIVE RejectAll(_, _)
\* pendingRequests.forEach of onerror: the calls logged for the entries ids
RejectAll(log, ids) ==
    IF ids = {} THEN log
    ELSE LET id == CHOOSE i \in ids : \A j \in ids : i <= j
         IN  RejectAll(Log(log, id, Settle("reject", "error", id)), ids \ {id})

RECURSIVE DeleteAll(_, _)
DeleteAll(pending, ids) ==
    IF ids = {} THEN pending
    ELSE LET id == CHOOSE i \in ids : \A j \in ids : i <= j
         IN  DeleteAll(delete(pending, id), ids \ {id})

\* sharedWorker.onerror
OnError ==
    /\ pendingRequests # {}
    /\ timers' = timers \ pendingRequests
    /\ settled' = RejectAll(settled, pendingRequests)
    /\ pendingRequests' = DeleteAll(pendingRequests, pendingRequests)
    /\ UNCHANGED <<nextId, posted, responses, transportRest>>

NextTransport == Post \/ WorkerReply \/ OnMessage \/ Timeout \/ OnError

SpecTransport == InitTransport /\ [][NextTransport]_vars

\* a timer that is armed and not cleared fires
SpecTransportFair ==
    SpecTransport /\ \A id \in RequestIds : WF_vars(TimeoutOf(id))

(***************************************************************************)
(* useStreamingJson (packages/react): one mounted hook, its input changing *)
(* from render to render, its repairJson calls settling in any order.      *)
(***************************************************************************)
\* the number of non-empty inputs the hook is given
MaxInputs == 3

NoSchema == "null"

\* z.object({ a: z.number() })
SchemaA == "z.object({ a: z.number() })"

\* JSON.stringify(prev).length > rawString.length + 50
ResetMargin == 50

\* a text whose repaired document is more than ResetMargin characters longer
\* than the short texts: the start of a deeply nested array
DeepText == [j \in 1..((ResetMargin + 2) \div 2) |-> "["] \o <<"1">>

HookTexts == { <<>>, <<"{", "\"", "a", "\"", ":", "1">>,
               <<"{", "\"", "a", "\"", ":", "1", "}">>,
               <<"{", "\"", "b", "\"", ":", "2", "}">>, <<"[", "2">>,
               <<"{", "\"", "a", "\"", ":">>, DeepText }

\* what an if of JavaScript takes for true
Truthy(v) ==
    IF v[1] = "null" THEN FALSE
    ELSE IF v[1] = "bool" THEN v[2]
    ELSE IF v[1] = "num" THEN v[2] # 0
    ELSE IF v[1] = "str" THEN v[2] # <<>>
    ELSE TRUE

\* schema.safeParse(value) of the schema z.object({ a: z.number() }): the
\* keys the schema does not name are stripped
safeParse(schema, value) ==
    IF value[1] = "obj" /\ KeyA \in DOMAIN value[2] /\ value[2][KeyA][1] = "num"
    THEN [success |-> TRUE, data |-> <<"obj", (KeyA :> value[2][KeyA])>>, errors |-> <<>>]
    ELSE [success |-> FALSE, data |-> <<"null">>,
          errors |-> <<[path |-> IF value[1] = "obj" THEN "a" ELSE "",
                        code |-> "invalid_type"]>>]

Call(name, argument) == [name |-> name, arg |-> argument]

Last(calls) == calls[Len(calls)]

\* the hook's React state, refs and callback calls as one value
HookState == [hook |-> hook, completedRef |-> completedRef,
              prevDataRef |-> prevDataRef, callbacks |-> callbacks]

\* const nowComplete = result.isValid && schemaValid
nowComplete(result, schemaValid) == result.isValid /\ schemaValid

\* setData, setIsValid, setSchemaErrors and the detection of completion
Apply(st, result, validatedData, errors, schemaValid, calls) ==
    LET complete == nowComplete(result, schemaValid) /\ ~st.completedRef
    IN  [hook |-> [st.hook EXCEPT !.data = validatedData,
                                  !.isValid = result.isValid /\ schemaValid,
                                  !.schemaErrors = errors,
                                  !.isComplete = IF complete THEN TRUE ELSE @],
         completedRef |-> IF complete THEN TRUE ELSE st.completedRef,
         prevDataRef |-> validatedData,
         callbacks |-> IF complete THEN Append(calls, Call("onComplete", validatedData))
                       ELSE calls]

\* the schema validation of a result whose data is truthy
Validate(st, result, parseResult) ==
    IF st.hook.schema # NoSchema /\ result.isValid
    THEN IF parseResult.success
         THEN Apply(st, result, parseResult.data, <<>>, TRUE, st.callbacks)
         ELSE IF st.hook.partial
         THEN Apply(st, result, result.data, parseResult.errors, FALSE,
                    Append(st.callbacks, Call("onValidationFail", parseResult.errors)))
         ELSE [st EXCEPT !.hook.schemaErrors = parseResult.errors,
                         !.hook.isValid = FALSE,
                         !.callbacks = Append(@, Call("onValidationFail", parseResult.errors))]
    ELSE Apply(st, result, result.data, <<>>,
               ~(st.hook.schema # NoSchema /\ ~result.isValid), st.callbacks)

\* the body of process after the await, for a result that is not discarded
Process(st, result) ==
    IF Truthy(result.data)
    THEN Validate(st, result, safeParse(st.hook.schema, result.data))
    ELSE st

\* the test of the request id after the await
Current(currentRequestId) == currentRequestId = requestIdRef

\* the effect "Reset completion flag when rawString changes significantly"
Reset(text) ==
    /\ text # <<>>
    /\ completedRef
    /\ \/ ~Truthy(prevDataRef)
       \/ Len(JSONstringify(prevDataRef)) > Len(text) + ResetMargin

InitHook ==
    /\ VaultNew
    /\ op = "new"
    /\ RepairIdle
    /\ scanArgs = <<>>
    /\ scanRes = <<>>
    /\ scanRes2 = <<>>
    /\ extractArgs = <<>>
    /\ extractRes = <<>>
    /\ reply = <<>>
    /\ fixedStr = <<>>
    /\ guard = <<>>
    /\ plugins = <<>>
    /\ kernel = <<>>
    /\ TransportIdle
    /\ hook \in [schema : {NoSchema, SchemaA}, partial : BOOLEAN,
                 data : {<<"obj", <<>>>>}, isValid : {FALSE},
                 schemaErrors : {<<>>}, isComplete : {FALSE}, fired : {FALSE}]
    /\ rawString = <<>>
    /\ requestIdRef = 0
    /\ awaited = {}
    /\ completedRef = FALSE
    /\ prevDataRef = <<"null">>
    /\ callbacks = <<>>

hookRest == <<vaultVars, op, raw, res, res2, doc, scanVars, extractVars, reply,
              fixedStr, transportVars, guard, plugins, kernel>>

\* text continues the stream of the input old: it is not empty and starts
\* with old, which is not empty
Continues(old, text) == old # <<>> /\ Len(text) > Len(old) /\ Take(text, Len(old)) = old

\* the history field after a render with the input text
FiredAfter(text) == IF text = <<>> \/ Continues(rawString, text) THEN hook.fired ELSE FALSE

\* a render with another rawString: the effects that depend on it run
Render ==
    \E text \in HookTexts \ {rawString} :
        /\ text # <<>> => requestIdRef < MaxInputs
        /\ rawString' = text
        /\ IF text = <<>>
           THEN UNCHANGED <<requestIdRef, awaited>>
           ELSE /\ requestIdRef' = requestIdRef + 1
                /\ awaited' = awaited \cup {[currentRequestId |-> requestIdRef + 1,
                                             rawString |-> text]}
        /\ IF Reset(text)
           THEN /\ completedRef' = FALSE
                /\ hook' = [hook EXCEPT !.isComplete = FALSE, !.fired = FiredAfter(text)]
           ELSE /\ UNCHANGED completedRef
                /\ hook' = [hook EXCEPT !.fired = FiredAfter(text)]
        /\ UNCHANGED <<prevDataRef, callbacks, hookRest>>

\* process called onComplete: calls is the log after it
CalledOnComplete(calls) == calls # callbacks /\ Last(calls).name = "onComplete"

\* the promise of a repairJson call resolves with the worker's result
Resolve ==
    \E q \in awaited :
        /\ awaited' = awaited \ {q}
        /\ IF Current(q.currentRequestId)
           THEN \E st \in {Process(HookState, RepairJsonResult(q.rawString))} :
                    /\ hook' = [st.hook EXCEPT !.fired = @ \/ CalledOnComplete(st.callbacks)]
                    /\ completedRef' = st.completedRef
                    /\ prevDataRef' = st.prevDataRef
                    /\ callbacks' = st.callbacks
           ELSE UNCHANGED <<hook, completedRef, prevDataRef, callbacks>>
        /\ UNCHANGED <<rawString, requestIdRef, hookRest>>

\* the promise of a repairJson call rejects: a timeout or a worker error
Reject ==
    \E q \in awaited :
        /\ awaited' = awaited \ {q}
        /\ callbacks' = IF Current(q.currentRequestId)
                        THEN Append(callbacks, Call("onError", <<"null">>))
                        ELSE callbacks
        /\ UNCHANGED <<hook, completedRef, prevDataRef, rawString, requestIdRef, hookRest>>

NextHook == Render \/ Resolve \/ Reject

SpecHook == InitHook /\ [][NextHook]_vars

(***************************************************************************)
(* useGuard, without a schema: one mounted hook, its stream changing from  *)
(* render to render, its repairJson calls settling in any order.           *)
(***************************************************************************)
\* setData, setMetrics and the lifecycle hooks of processStream, no engine
processStream(g, result) ==
    LET complete == result.isValid /\ ~result.isPartial /\ ~g.completedRef
    IN  [g EXCEPT !.data = result.data,
                  !.metrics = [isValid |-> result.isValid, isPartial |-> result.isPartial,
                               schemaErrors |-> <<>>, hallucinations |-> 0],
                  !.completedRef = IF complete THEN TRUE ELSE @,
                  !.calls = IF complete THEN Append(@, Call("onComplete", result.data))
                            ELSE @]

\* return () => { mounted = false; }
Cleanup(runs) == {[r EXCEPT !.mounted = FALSE] : r \in runs}

InitGuard ==
    /\ VaultNew
    /\ op = "new"
    /\ RepairIdle
    /\ scanArgs = <<>>
    /\ scanRes = <<>>
    /\ scanRes2 = <<>>
    /\ extractArgs = <<>>
    /\ extractRes = <<>>
    /\ reply = <<>>
    /\ fixedStr = <<>>
    /\ plugins = <<>>
    /\ kernel = <<>>
    /\ TransportIdle
    /\ HookIdle
    /\ guard = [stream |-> <<>>,
                data |-> <<"obj", <<>>>>,
                metrics |-> [isValid |-> FALSE, isPartial |-> TRUE,
                             schemaErrors |-> <<>>, hallucinations |-> 0],
                runs |-> {},
                effects |-> 0,
                completedRef |-> FALSE,
                calls |-> <<>>]

guardRest == <<vaultVars, op, raw, res, res2, doc, scanVars, extractVars, reply,
               fixedStr, transportVars, hookVars, plugins, kernel>>

\* a render with another stream: the cleanup of the effect's last run, then
\* the effect
GuardRender ==
    \E text \in HookTexts \ {guard.stream} :
        /\ text # <<>> => guard.effects < MaxInputs
        /\ guard' = IF text = <<>>
                    THEN [guard EXCEPT !.stream = text, !.runs = Cleanup(@)]
                    ELSE [guard EXCEPT !.stream = text,
                                       !.effects = @ + 1,
                                       !.runs = Cleanup(@) \cup
                                                {[run |-> guard.effects + 1, stream |-> text,
                                                  mounted |-> TRUE]}]
        /\ UNCHANGED guardRest

\* the promise of a repairJson call resolves with the worker's result
GuardResolve ==
    \E r \in guard.runs :
        /\ \E g \in {[guard EXCEPT !.runs = @ \ {r}]} :
               guard' = IF r.mounted THEN processStream(g, RepairJsonResult(r.stream)) ELSE g
        /\ UNCHANGED guardRest

\* the promise of a repairJson call rejects: catch (err)
GuardReject ==
    \E r \in guard.runs :
        /\ guard' = [guard EXCEPT !.runs = @ \ {r},
                                  !.calls = Append(@, Call("onError", <<"null">>))]
        /\ UNCHANGED guardRest

NextGuard == GuardRender \/ GuardResolve \/ GuardReject

SpecGuard == InitGuard /\ [][NextGuard]_vars

(***************************************************************************)
(* The worker's plugin system: the messages LOAD_PLUGIN, UNLOAD_PLUGIN and *)
(* LIST_PLUGINS handled one at a time, the imports and the inits of the    *)
(* plugins settling between them in any order.  A promise that is settled  *)
(* when it is awaited resumes its awaiter before the next message.         *)
(***************************************************************************)
MaxMessages == 4

PluginNames == {"pii", "tox"}

\* what a LOAD_PLUGIN message carries: a name, a url or none, and a module
\* with an init function, a module without one, or none
PluginConfigs ==
    {[name |-> n, url |-> u, module |-> m] :
        n \in PluginNames, u \in BOOLEAN, m \in {"undefined", "init", "plain"}}

InFlight == {"importing", "initialising"}

MapDelete(m, key) == SelectSeq(m, LAMBDA e : e[1] # key)

\* self.postMessage of the handler: the result of the message, or its error
PostReply(pl, id, success, cached) ==
    [pl EXCEPT !.posted = @ \cup {[id |-> id, success |-> success, cached |-> cached,
                                   plugins |-> <<>>]}]

\* the continuations of the loadPlugin calls that await the promise p, once
\* it is settled
Resume(pl, p) ==
    LET woken == IF pl.promises[p].state \in InFlight THEN {}
                 ELSE {w \in pl.waiting : w.promise = p}
        ok == pl.promises[p].state = "fulfilled"
    IN  [pl EXCEPT !.waiting = @ \ woken,
                   !.posted = @ \cup {[id |-> w.id, success |-> ok,
                                       cached |-> ok /\ w.cached, plugins |-> <<>>] :
                                         w \in woken}]

\* catch (err) { pluginInitPromises.delete(name); throw err; }
Catch(pl, p) ==
    [pl EXCEPT !.pluginInitPromises = MapDelete(@, pl.promises[p].name),
               !.promises[p].state = "rejected"]

\* loadedPlugins.set(name, plugin); return plugin;
SetLoaded(pl, p, plugin) ==
    [pl EXCEPT !.loadedPlugins = MapSet(@, pl.promises[p].name, plugin),
               !.promises[p].state = "fulfilled"]

\* if (typeof plugin.init === 'function') await plugin.init(): the call of
\* init throws, or returns a promise that settles later
Initialise(pl, p, plugin, throws) ==
    IF plugin = "plain" THEN SetLoaded(pl, p, plugin)
    ELSE IF throws
         THEN Catch([pl EXCEPT !.inits = Append(@, pl.promises[p].name)], p)
         ELSE [pl EXCEPT !.inits = Append(@, pl.promises[p].name),
                         !.promises[p].state = "initialising",
                         !.promises[p].plugin = plugin]

\* the body of initPromise up to its first await
InitPromise(pl, p, config, throws) ==
    IF config.module # "undefined" THEN Initialise(pl, p, config.module, throws)
    ELSE IF config.url THEN pl
    ELSE Catch(pl, p)

\* a loadPlugin that starts a load whatever the maps hold
loadPluginAlways(pl, id, config, throws) ==
    LET p == Len(pl.promises) + 1
        started == [pl EXCEPT !.promises =
                       Append(@, [name |-> config.name, state |-> "importing",
                                  plugin |-> "undefined", sync |-> FALSE])]
        ran == InitPromise(started, p, config, throws)
    IN  Resume([ran EXCEPT !.pluginInitPromises = MapSet(@, config.name, p),
                           !.promises[p].sync = ran.promises[p].state \notin InFlight,
                           !.waiting = @ \cup {[id |-> id, promise |-> p, cached |-> FALSE]}],
               p)

\* loadPlugin(pluginConfig), up to its first await that has to wait
loadPlugin(pl, id, config, throws) ==
    IF MapHas(pl.loadedPlugins, config.name) THEN PostReply(pl, id, TRUE, TRUE)
    ELSE IF MapHas(pl.pluginInitPromises, config.name)
         THEN Resume([pl EXCEPT !.waiting = @ \cup
                         {[id |-> id, promise |-> MapGet(pl.pluginInitPromises, config.name),
                           cached |-> TRUE]}],
                     MapGet(pl.pluginInitPromises, config.name))
         ELSE loadPluginAlways(pl, id, config, throws)

\* the worker receives the message: const { id, type, payload } = e.data
Received(pl, type, name) ==
    [pl EXCEPT !.messages = @ + 1, !.message = [type |-> type, name |-> name]]

GuardIdle == guard = <<>>

InitPlugins ==
    /\ VaultNew
    /\ op = "new"
    /\ RepairIdle
    /\ scanArgs = <<>>
    /\ scanRes = <<>>
    /\ scanRes2 = <<>>
    /\ extractArgs = <<>>
    /\ extractRes = <<>>
    /\ reply = <<>>
    /\ fixedStr = <<>>
    /\ GuardIdle
    /\ kernel = <<>>
    /\ TransportIdle
    /\ HookIdle
    /\ plugins = [loadedPlugins |-> <<>>,
                  pluginInitPromises |-> <<>>,
                  promises |-> <<>>,
                  waiting |-> {},
                  inits |-> <<>>,
                  posted |-> {},
                  messages |-> 0,
                  message |-> [type |-> "none", name |-> "none"],
                  unloaded |-> {}]

pluginsRest == <<vaultVars, op, raw, res, res2, doc, scanVars, extractVars, reply,
                 fixedStr, transportVars, hookVars, guard, kernel>>

\* case 'LOAD_PLUGIN': result = await loadPlugin(payload)
LoadPlugin ==
    /\ plugins.messages < MaxMessages
    /\ \E config \in PluginConfigs, throws \in BOOLEAN :
          plugins' = loadPlugin(Received(plugins, "LOAD_PLUGIN", config.name),
                                plugins.messages + 1, config, throws)
    /\ UNCHANGED pluginsRest

\* case 'UNLOAD_PLUGIN'
UnloadPlugin ==
    /\ plugins.messages < MaxMessages
    /\ \E pluginName \in PluginNames :
          plugins' = PostReply([Received(plugins, "UNLOAD_PLUGIN", pluginName) EXCEPT
                                   !.loadedPlugins = MapDelete(@, pluginName),
                                   !.pluginInitPromises = MapDelete(@, pluginName),
                                   !.unloaded = @ \cup {pluginName}],
                               plugins.messages + 1, TRUE, FALSE)
    /\ UNCHANGED pluginsRest

\* case 'LIST_PLUGINS'
ListPlugins ==
    /\ plugins.messages < MaxMessages
    /\ plugins' = [Received(plugins, "LIST_PLUGINS", "none") EXCEPT
                      !.posted = @ \cup {[id |-> plugins.messages + 1, success |-> TRUE,
                                          cached |-> FALSE,
                                          plugins |-> MapKeys(plugins.loadedPlugins)]}]
    /\ UNCHANGED pluginsRest

\* the import of a plugin's url settles: it fails, or it gives a module whose
\* init, if it has one, is called
ImportSettles ==
    /\ \E p \in 1..Len(plugins.promises) :
          /\ plugins.promises[p].state = "importing"
          /\ \E to \in {Resume(Catch(plugins, p), p)} \cup
                       {Resume(Initialise(plugins, p, m, throws), p) :
                           m \in {"init", "plain"}, throws \in BOOLEAN} :
                plugins' = [to EXCEPT !.message = [type |-> "none", name |-> "none"]]
    /\ UNCHANGED pluginsRest

\* the promise a plugin's init returned settles
InitSettles ==
    /\ \E p \in 1..Len(plugins.promises) :
          /\ plugins.promises[p].state = "initialising"
          /\ \E to \in {Resume(SetLoaded(plugins, p, plugins.promises[p].plugin), p),
                        Resume(Catch(plugins, p), p)} :
                plugins' = [to EXCEPT !.message = [type |-> "none", name |-> "none"]]
    /\ UNCHANGED pluginsRest

NextPlugins == LoadPlugin \/ UnloadPlugin \/ ListPlugins \/ ImportSettles \/ InitSettles

SpecPlugins == InitPlugins /\ [][NextPlugins]_vars

(***************************************************************************)
(* The properties.                                                         *)
(***************************************************************************)
\* C1: repair is idempotent: repairing the fixed text of a repair again
\* returns the same fixed text, for every input text
C1_Idempotent == op = "again" => res2.fixed = res.fixed

\* C2, as the spec states it: every proper prefix of a serialised document,
\* the empty one included, is repaired with isPartial true, and the whole
\* text is repaired with isPartial false and data equal to the document
C2_Convergence ==
    op = "prefix" =>
        IF Len(raw) < Len(JSONstringify(doc)) THEN res.isPartial
        ELSE ~res.isPartial /\ res.data = doc

\* C2, amended: isPartial is true on every non-empty proper prefix of a
\* document that is an object, an array or a string; the empty prefix is
\* repaired to {} with isPartial false; the whole text is repaired with
\* isPartial false and data equal to the document
C2_ConvergenceStructured ==
    op = "prefix" =>
        LET k == Len(raw)
            T == JSONstringify(doc)
        IN  /\ k = 0 => ~res.isPartial /\ res.fixed = <<"{", "}">>
            /\ (0 < k /\ k < Len(T) /\ doc[1] \in {"obj", "arr", "str"}) => res.isPartial
            /\ k = Len(T) => ~res.isPartial /\ res.data = doc

\* a document two levels deep is cut inside its inner container
C2_Witness ==
    /\ op = "prefix"
    /\ doc = <<"obj", (KeyA :> <<"arr", <<<<"num", 12>>, <<"bool", TRUE>>>>>>)>>
    /\ Len(raw) = 8
    /\ res.isPartial
    /\ res.data = <<"obj", (KeyA :> <<"arr", <<<<"num", 12>>>>>>)>>

\* the spans of text that the pattern of type ty matches
SpansOf(ty, text) ==
    MatchAll(PATTERNS_ORDERED[CHOOSE j \in 1..Len(PATTERNS_ORDERED) :
                                  PATTERNS_ORDERED[j][1] = ty][2], text)

Range(seq) == {seq[k] : k \in 1..Len(seq)}

\* the literal values the pattern of type ty matches in text
LiteralsOf(ty, text) == {Matched(text, m) : m \in Range(SpansOf(ty, text))}

\* the literal values the patterns match in text
Literals(text) == UNION {LiteralsOf(ty, text) : ty \in Types}

\* whether text holds something unmask takes for a token of the vault
TokenShaped(text) ==
    \E j \in 1..Len(vault) : MatchFirst(FuzzyPattern(vault[j][1]), text) # <<>>

\* whether tag is a token of the type ty
HasPrefix(tag, ty) == OccursAt(tag, <<"<">> \o TAG_PREFIXES[ty] \o <<"_">>, 0)

\* what unmask is to return for a text of the words ws: the value of every
\* token the vault knows, every other word as it is
Restored(ws) ==
    Join([j \in 1..Len(ws) |->
            IF ws[j].inner # <<>> /\ MapHas(vault, <<"<">> \o ws[j].inner \o <<">">>)
            THEN MapGet(vault, <<"<">> \o ws[j].inner \o <<">">>)
            ELSE ws[j].text])

\* C3: the round trip: when the masked text, with the delimiters of its
\* tokens altered or not, is unmasked, every literal value the patterns
\* matched in the original text is back, and a text that held nothing
\* token-shaped is back as a whole
C3_RoundTrip ==
    op = "reply" =>
        /\ \A value \in Literals(sent) : Occurs(value, ret)
        /\ ~TokenShaped(sent) => ret = sent

\* two literals, one of them twice, came back from tokens in three styles
C3_Witness ==
    /\ op = "reply"
    /\ sent = Join(<<WHi, WEmailA, WEmailC, WEmailA>>)
    /\ ret = sent
    /\ Occurs(<<"[", " ", "E", "M", "A", "I", "L", "_", "2", " ", "]">>, arg)
    /\ Occurs(<<"(", "E", "M", "A", "I", "L", "_", "1", ")">>, arg)

\* C4: referential consistency: the map from tokens to values and the map
\* from values to tokens are inverses of each other in every reachable state
C4_MutualInverse ==
    /\ \A j \in 1..Len(vault) :
          /\ MapHas(reverseMap, vault[j][2])
          /\ MapGet(reverseMap, vault[j][2]) = vault[j][1]
    /\ \A j \in 1..Len(reverseMap) :
          /\ MapHas(vault, reverseMap[j][2])
          /\ MapGet(vault, reverseMap[j][2]) = reverseMap[j][1]
    /\ \A j, k \in 1..Len(vault) : vault[j][1] = vault[k][1] => j = k
    /\ \A j, k \in 1..Len(reverseMap) : reverseMap[j][1] = reverseMap[k][1] => j = k

\* the same literal was masked by two calls and has one token
C4_Witness ==
    /\ masks = 2
    /\ op = "mask"
    /\ arg = WEmailA
    /\ Len(vault) = 2
    /\ MapGet(reverseMap, WEmailA) = <<"<", "E", "M", "A", "I", "L", "_", "1", ">">>
    /\ ret = <<"<", "E", "M", "A", "I", "L", "_", "1", ">">>

\* the entries of the vault, up to the j-th, whose token is of the type ty
EntriesOf(ty, j) == {i \in 1..j : HasPrefix(vault[i][1], ty)}

RECURSIVE Sum(_, _)
Sum(f, dom) ==
    IF dom = {} THEN 0
    ELSE LET x == CHOOSE x \in dom : TRUE IN f[x] + Sum(f, dom \ {x})

\* the tokens of each type are numbered 1, 2, 3, ... in the order the vault
\* recorded them, the counter of the type is the last number given, both
\* maps record the literals in the same order, and the size is the sum of
\* the counters
C5_Numbered ==
    /\ \A j \in 1..Len(vault) :
          \E ty \in Types :
             vault[j][1] = <<"<">> \o TAG_PREFIXES[ty] \o <<"_">>
                              \o DigitsOf(Cardinality(EntriesOf(ty, j))) \o <<">">>
    /\ \A ty \in Types : counters[ty] = Cardinality(EntriesOf(ty, Len(vault)))
    /\ Len(reverseMap) = Len(vault)
    /\ \A j \in 1..Len(vault) : reverseMap[j] = <<vault[j][2], vault[j][1]>>
    /\ size(Self) = Sum(counters, Types)

\* a step other than flush leaves every entry of the vault as it is, and
\* gives each new literal the next number of its type
C5_Kept ==
    op' # "flush" =>
        /\ Len(vault') >= Len(vault)
        /\ \A j \in 1..Len(vault) : vault'[j] = vault[j]
        /\ \A ty \in Types :
              counters'[ty] - counters[ty]
                 = Cardinality({j \in (Len(vault) + 1)..Len(vault') : HasPrefix(vault'[j][1], ty)})

\* C5: token numbering: per category 1, 2, 3, ... in the order of first
\* recording, each new literal taking the next integer; no token is given
\* another value before flush; the size is the sum of the counters
C5_Numbering == [](C5_Numbered) /\ [][C5_Kept]_vars

\* a second call added the first phone number after two email addresses
C5_Witness ==
    /\ masks = 2
    /\ vault = << <<MakeTag(TAG_PREFIXES["EMAIL"], 1), WEmailA>>,
                  <<MakeTag(TAG_PREFIXES["EMAIL"], 2), WEmailC>>,
                  <<MakeTag(TAG_PREFIXES["PHONE"], 1), WPhone>> >>
    /\ counters["EMAIL"] = 2
    /\ counters["PHONE"] = 1
    /\ size(Self) = 3

\* C6: mask replaces every occurrence of each matched literal with the
\* literal's own token: after the call no matched literal is left in the
\* text returned, and the token of each matched literal stands in it
C6_OwnToken ==
    op = "mask" =>
        \A value \in Literals(arg) :
            /\ ~Occurs(value, ret)
            /\ MapHas(reverseMap, value)
            /\ Occurs(MapGet(reverseMap, value), ret)

\* C7: flush empties both maps and zeroes every counter; from then on the
\* PIIVault holds what a PIIVault created at the time of the flush holds
\* after the same calls, and its calls return what that one's return
C7_FlushFresh ==
    /\ op = "flush" =>
          /\ vault = <<>>
          /\ reverseMap = <<>>
          /\ \A ty \in Types : counters[ty] = 0
    /\ flushes > 0 =>
          /\ Self = fresh.v
          /\ op \in {"mask", "unmask", "reply"} => ret = fresh.ret

\* after a flush an email address is masked, and is numbered 1 again
C7_Witness ==
    /\ flushes = 1
    /\ op = "mask"
    /\ arg = WEmailA
    /\ ret = MakeTag(TAG_PREFIXES["EMAIL"], 1)
    /\ Self = fresh.v

\* C9: unmask leaves a token-shaped word whose inner name is no key of the
\* vault as it is, and replaces the tokens the vault knows around it
C9_UnknownKept ==
    op = "unmask" =>
        \A ws \in UnmaskInputs : UText(ws) = arg => ret = Restored(ws)

\* <EMAIL_9> is unknown and stays, ( EMAIL_1 ) is known and is replaced
C9_Witness ==
    /\ op = "unmask"
    /\ arg = UText(<< UTok(Chars(UEmail, 9), EchoKinds[1]), UTok(Chars(UEmail, 1), EchoKinds[6]) >>)
    /\ ret = Join(<< <<"<", "E", "M", "A", "I", "L", "_", "9", ">">>, WEmailA >>)

\* text with the spans that the card and address patterns match blanked
Unspecific(text) ==
    [i \in 1..Len(text) |->
        IF \E m \in Range(SpansOf("CREDIT_CARD", text)) \cup Range(SpansOf("IPV4", text)) :
              m.start < i /\ i <= m.end
        THEN "#" ELSE text[i]]

C8_LongestFirst ==
    /\ \A j, k \in 1..Len(vault) :
          j < k => Len(SortedTags(vault)[j]) >= Len(SortedTags(vault)[k])
    /\ \A tag \in Range(MapKeys(vault)) : tag \in Range(SortedTags(vault))
    /\ op = "unmask" =>
          \A ws \in UnmaskTenInputs : UText(ws) = arg => ret = Restored(ws)

\* ten users are in the vault, and <EMAIL_1> <EMAIL_10> is unmasked to the
\* first and the tenth address
C8_Witness ==
    /\ op = "unmask"
    /\ Len(vault) = Users
    /\ arg = UText(<< UserTok(1, 1), UserTok(10, 1) >>)
    /\ ret = Join(<< UserEmail(1), UserEmail(10) >>)



\* the matches of the enabled categories that the allow list does not
\* exclude, as pairs of a category and a matched string
Surviving(a) ==
    LET i == WithCustomRules(PATTERNS, a.customRules, 1)
        u == IF a.rules = <<>> THEN MapKeys(i) ELSE a.rules
        d == AllowPatterns(a.allow)
    IN  UNION { {<<u[k], g>> :
                   g \in {g \in Range(match(a.text, RegExp(MapGet(i, u[k]).source, {"g"}))) :
                            Survives(g, d)}} :
                k \in {k \in 1..Len(u) : MapHas(i, u[k])} }

\* C11: safe is true exactly when findings is empty, which is exactly when
\* no match of an enabled category survives the allow list, and every entry
\* of findings carries at least one match
C11_SafeIffNoFindings ==
    op = "scan" =>
        /\ scanRes.safe = (scanRes.findings = <<>>)
        /\ (scanRes.findings = <<>>) = (Surviving(scanArgs) = {})
        /\ \A k \in 1..Len(scanRes.findings) : scanRes.findings[k].matches # <<>>

\* a text whose only match is allowed is safe
C11_Witness ==
    /\ op = "scan"
    /\ scanArgs.text = <<"a", "@", "b", ".", "c", "o">>
    /\ scanArgs.rules = <<EMAIL>>
    /\ scanArgs.allow = << [string |-> <<"a", "@", "b", ".", "c", "o">>] >>
    /\ scanArgs.customRules = <<>>
    /\ scanRes.safe
    /\ scanRes.findings = <<>>
\* the matched strings of the enabled category c
MatchesOf(a, c) ==
    LET i == WithCustomRules(PATTERNS, a.customRules, 1)
    IN  IF MapHas(i, c) THEN match(a.text, RegExp(MapGet(i, c).source, {"g"})) ELSE <<>>

\* the enabled categories
Enabled(a) ==
    IF a.rules = <<>> THEN Range(MapKeys(WithCustomRules(PATTERNS, a.customRules, 1)))
    ELSE Range(a.rules)

\* a matched string equals an entry of the allow list, or matches one
Allowed(g, t) ==
    \E p \in 1..Len(t) :
        IF "string" \in DOMAIN t[p]
        THEN g = t[p].string \/ test(ParsePattern(t[p].string, 0, <<>>), g)
        ELSE test(t[p].regexp, g)

\* the entries of findings for the category c
Entries(c) == {k \in 1..Len(scanRes.findings) : scanRes.findings[k].type = c}

\* C12: a matched string that equals or matches an entry of the allow list is
\* in no entry of findings, and with redaction requested it still stands in
\* the text returned, also when another match of its category is redacted
C12_AllowedKept ==
    op = "scan" =>
        \A c \in Enabled(scanArgs) :
            \A g \in {g \in Range(MatchesOf(scanArgs, c)) : Allowed(g, scanArgs.allow)} :
                /\ \A k \in Entries(c) : g \notin Range(scanRes.findings[k].matches)
                /\ scanArgs.redact => Occurs(g, scanRes.text)

\* C13: with redaction requested, no surviving matched string remains in the
\* text returned and the placeholder of its category stands in it; also for
\* a string matched twice and for matches of two categories that overlap
C13_AllRedacted ==
    op = "scan" /\ scanArgs.redact =>
        \A cg \in Surviving(scanArgs) :
            /\ ~Occurs(cg[2], scanRes.text)
            /\ Occurs(Placeholder(cg[1]), scanRes.text)

\* the custom rule that has the name c, if there is one: the last of them
CustomRule(a, c) ==
    LET ks == {k \in 1..Len(a.customRules) :
                 a.customRules[k].name = c /\ a.customRules[k].pattern # <<>>}
    IN  IF ks = {} \/ c = <<>> THEN <<>>
        ELSE <<a.customRules[CHOOSE k \in ks : \A h \in ks : h <= k]>>

\* the matches the category c has to report: those of the source of the
\* custom rule of that name if there is one, of the built-in rule otherwise,
\* that the allow list does not exclude
Reported(a, c) ==
    LET p == IF CustomRule(a, c) # <<>> THEN <<CustomRule(a, c)[1].pattern>>
             ELSE IF MapHas(PATTERNS, c) THEN <<MapGet(PATTERNS, c)>> ELSE <<>>
    IN  IF p = <<>> THEN <<>>
        ELSE SelectSeq(match(a.text, RegExp(p[1].source, {"g"})),
                       LAMBDA g : Survives(g, AllowPatterns(a.allow)))

\* C14: an enabled custom rule with a new name is a category of its own, and
\* a custom rule named as a built-in category stands in its place: in both
\* cases findings holds for that name the matches of the custom pattern
C14_CustomRules ==
    op = "scan" =>
        \A c \in Enabled(scanArgs) :
            IF Reported(scanArgs, c) = <<>> THEN Entries(c) = {}
            ELSE \E k \in 1..Len(scanRes.findings) :
                    /\ Entries(c) = {k}
                    /\ scanRes.findings[k].matches = Reported(scanArgs, c)

\* the ticket rule reports a ticket, and the rule that replaces EMAIL
\* reports what it matches in an address instead of the address
C14_Witness ==
    /\ op = "scan"
    /\ scanArgs.text = <<"a", "@", "b", ".", "c", "o", " ", "T", "-", "1">>
    /\ scanArgs.rules = <<>>
    /\ scanArgs.allow = <<>>
    /\ CustomRule(scanArgs, EMAIL) # <<>>
    /\ CustomRule(scanArgs, TICKET_ID) # <<>>
    /\ scanRes.findings = << [type |-> EMAIL, matches |-> << <<"@", "b">> >>],
                             [type |-> TICKET_ID, matches |-> << <<"T", "-", "1">> >>] >>
\* C15: repairJSON raises for no input string: what it returns carries fixed
\* and patches, and a fixed text that does not parse is signalled by data
\* being null
C15_NeverRaises ==
    op = "repair" =>
        /\ {"fixed", "data", "isPartial", "patches"} \subseteq DOMAIN res
        /\ ~JSONparse(res.fixed).ok => res.data = <<"null">>

\* a text that repair cannot make valid: the best effort is returned
C15_Witness ==
    /\ op = "repair"
    /\ raw = <<"[", "}">>
    /\ res.fixed = <<"[", "}", "]">>
    /\ res.patches # <<>>
    /\ ~JSONparse(res.fixed).ok
    /\ res.data = <<"null">>

\* C16: the parsed value is absent (null) only when the fixed text is not
\* valid JSON, in the result of repairJSON and in the result the worker makes
\* of it
C16_AbsentOnlyInvalid ==
    /\ op = "repair" /\ res.data = <<"null">> => ~JSONparse(res.fixed).ok
    /\ op = "worker" /\ reply.data = <<"null">> => ~JSONparse(reply.fixedString).ok

\* the text that repairJSON works on
Preprocessed == Trim(stripMarkdown(raw))

Rank(type) ==
    CASE type = "unclosed_string" -> 1
      [] type = "trailing_comma" -> 2
      [] type = "missing_brace" -> 3

\* the patches are in the order of the three steps, and only the third step
\* makes more than one
InOrder(ps) ==
    \A j, k \in 1..Len(ps) :
        j < k => /\ Rank(ps[j].type) <= Rank(ps[k].type)
                 /\ Rank(ps[j].type) = Rank(ps[k].type) => ps[k].type = "missing_brace"

RECURSIVE Replay(_, _, _, _)
\* the text t altered as the patches from the k-th on say: a quote appended
\* at index, the text cut at the comma at index, a closer (the one that
\* stands in fixed) appended at index; <<"none">> if a patch does not fit
Replay(t, ps, k, fixed) ==
    IF k > Len(ps) THEN t
    ELSE LET at == ps[k].index
             fits == CASE ps[k].type = "unclosed_string" -> at = Len(t)
                       [] ps[k].type = "trailing_comma" ->
                             /\ at < Len(t)
                             /\ t[at + 1] = ","
                             /\ \A j \in (at + 2)..Len(t) : t[j] \in Space
                       [] ps[k].type = "missing_brace" ->
                             at = Len(t) /\ at < Len(fixed) /\ fixed[at + 1] \in {"}", "]"}
         IN  IF ~fits THEN <<"none">>
             ELSE Replay(CASE ps[k].type = "unclosed_string" -> Append(t, "\"")
                           [] ps[k].type = "trailing_comma" -> Take(t, at)
                           [] ps[k].type = "missing_brace" -> Append(t, fixed[at + 1]),
                         ps, k + 1, fixed)

\* C17: the alterations at the end of a non-empty input are made in the
\* order close the string, trim the comma, close the brackets; each one
\* appends one patch and sets isPartial, so that the patches, replayed in
\* their order on the input, give the fixed text
C17_PatchOrder ==
    op = "repair" /\ Preprocessed # <<>> =>
        /\ InOrder(res.patches)
        /\ Replay(Preprocessed, res.patches, 1, res.fixed) = res.fixed
        /\ res.isPartial = (res.patches # <<>>)

\* a comma is trimmed and then a bracket closed
C17_Witness ==
    /\ op = "repair"
    /\ raw = <<"[", "1", ",">>
    /\ res.fixed = <<"[", "1", "]">>
    /\ res.patches = << [type |-> "trailing_comma", index |-> 2],
                        [type |-> "missing_brace", index |-> 2] >>
    /\ res.isPartial

\* the closers of the objects and arrays of a closer stack, innermost first
ClosersOf(stack) ==
    LET open == SelectSeq(stack, LAMBDA c : c \in {"{", "["})
    IN  [k \in 1..Len(open) |-> IF open[Len(open) + 1 - k] = "{" THEN "}" ELSE "]"]

\* C18: what repairJSON appends to a non-empty input is the closing quote, if
\* the input ends inside a string, and then the closers of the structures
\* the scan left open, innermost first
C18_LifoClosers ==
    op = "repair" /\ Preprocessed # <<>> =>
        LET a == Scan(Preprocessed)
            kept == IF a.inString THEN Append(Preprocessed, "\"")
                    ELSE ReplaceFirst(Preprocessed, TrailingCommaRE, <<>>)
        IN  res.fixed = kept \o ClosersOf(a.stack)

\* the example of the README
C18_Witness ==
    /\ op = "repair"
    /\ raw = ReadmeExample
    /\ res.fixed = ReadmeExample \o <<"\"", "}", "}">>
    /\ res.isPartial
    /\ res.data = <<"obj", (<<"u", "s", "e", "r">> :> <<"obj", (<<"n", "a", "m", "e">> :> <<"str", <<"L", "i", "n", "u", "s">>>>)
                                                @@ (<<"r", "o", "l", "e">> :> <<"str", <<"a", "d", "m", "i", "n">>>>)>>)>>
RECURSIVE OutsideTrace(_, _, _)
\* the parts from the k-th on that no reasoning trace holds, for a reader of
\* the parts: a trace runs from an opening tag to the next closing tag, or to
\* the end of the text if there is none; inside says whether the k-th part
\* follows an opening tag that is not closed yet
OutsideTrace(parts, k, inside) ==
    IF k > Len(parts) THEN <<>>
    ELSE LET kind == parts[k].kind
         IN  (IF inside \/ kind \in {"open", "trace"} THEN <<>> ELSE <<parts[k]>>)
             \o OutsideTrace(parts, k + 1,
                             IF kind = "open" THEN TRUE
                             ELSE IF kind \in {"close", "trace"} THEN FALSE
                             ELSE inside)

\* C19: what extractJSON returns is what it returns for the text without its
\* reasoning traces, the closed ones and the one that is open at the end: no
\* character of a trace is part of it
C19_NoTrace ==
    op = "extract" =>
        extractRes = ExtractClean(TextOf(OutsideTrace(extractArgs.parts, 1, FALSE)),
                                  extractArgs.last)

\* a trace that holds an object, then an object, then a trace cut off
C19_Witness ==
    /\ op = "extract"
    /\ Len(extractArgs.parts) = 3
    /\ extractArgs.parts[1].kind = "trace"
    /\ extractArgs.parts[2].text = <<"{", "\"", "a", "\"", ":", "1", "}">>
    /\ extractArgs.parts[3].kind = "open"
    /\ extractRes = <<"{", "\"", "a", "\"", ":", "1", "}">>
RECURSIVE FenceBodies(_)
\* what stands between the first fence of a text and the next one (or the
\* end of the text), between the third and the fourth, and so on
FenceBodies(clean) ==
    IF ~Occurs(Fence, clean) THEN <<>>
    ELSE LET from == 3 + CHOOSE i \in 0..Len(clean) :
                           OccursAt(clean, Fence, i) /\ \A h \in 0..(i - 1) : ~OccursAt(clean, Fence, h)
             rest == Drop(clean, from)
         IN  IF ~Occurs(Fence, rest) THEN <<rest>>
             ELSE LET to == CHOOSE i \in 0..Len(rest) :
                              OccursAt(rest, Fence, i) /\ \A h \in 0..(i - 1) : ~OccursAt(rest, Fence, h)
                  IN  <<Take(rest, to)>> \o FenceBodies(Drop(rest, to + 3))

\* the trimmed content of a fenced block: what follows its language tag, if
\* it has one of json, json5, javascript, js
ContentOf(body) ==
    LET tags == {t \in {<<"j", "s", "o", "n", "5">>, <<"j", "a", "v", "a", "s", "c", "r", "i", "p", "t">>, <<"j", "s", "o", "n">>, <<"j", "s">>} : OccursAt(body, t, 0)}
        tag == IF tags = {} THEN <<>>
               ELSE CHOOSE t \in tags : \A u \in tags : Len(u) <= Len(t)
    IN  Trim(Drop(body, Len(tag)))

\* the contents of the fenced blocks that start with { or [
JsonBlocks(clean) ==
    SelectSeq([k \in 1..Len(FenceBodies(clean)) |-> ContentOf(FenceBodies(clean)[k])],
              LAMBDA content : content # <<>> /\ content[1] \in {"{", "["})

\* C20: if the text, its reasoning traces apart, holds a fenced block whose
\* trimmed content starts with { or [, extractJSON returns the content of
\* the last such block, or of the first if last is false
C20_FencedFirst ==
    op = "extract" =>
        LET blocks == JsonBlocks(TextOf(OutsideTrace(extractArgs.parts, 1, FALSE)))
        IN  blocks # <<>> => extractRes = Pick(blocks, extractArgs.last)
\* the text extractJSON looks for JSON in, for a reader of the parts
CleanOf(parts) == TextOf(OutsideTrace(parts, 1, FALSE))

RECURSIVE Spans(_, _, _)
\* the bracketed spans of a text from offset i on, for a reader who counts
\* the brackets that are open (a closing bracket with no bracket open is
\* prose) and skips strings: one span for each return of the count to zero,
\* and the span that is still open at the end; st is the record of depth,
\* start, inString, escaped and spans
Spans(clean, i, st) ==
    IF i >= Len(clean)
    THEN IF st.depth > 0 THEN Append(st.spans, Drop(clean, st.start)) ELSE st.spans
    ELSE LET char == clean[i + 1]
         IN  Spans(clean, i + 1,
               IF st.escaped THEN [st EXCEPT !.escaped = FALSE]
               ELSE IF char = "\\" /\ st.inString THEN [st EXCEPT !.escaped = TRUE]
               ELSE IF char = "\"" THEN [st EXCEPT !.inString = ~st.inString]
               ELSE IF st.inString THEN st
               ELSE IF char \in {"{", "["}
               THEN [st EXCEPT !.start = IF st.depth = 0 THEN i ELSE st.start,
                               !.depth = st.depth + 1]
               ELSE IF char \in {"}", "]"} /\ st.depth = 1
               THEN [st EXCEPT !.depth = 0,
                               !.spans = Append(st.spans, SubSeq(clean, st.start + 1, i + 1))]
               ELSE IF char \in {"}", "]"} /\ st.depth > 1
               THEN [st EXCEPT !.depth = st.depth - 1]
               ELSE st)

BracketSpans(clean) ==
    Spans(clean, 0, [depth |-> 0, start |-> -1, inString |-> FALSE, escaped |-> FALSE,
                     spans |-> <<>>])

\* the policy of steps 2 and 4 on a list that is not empty
Selected(list, last, result) == list # <<>> => result = Pick(list, last)

\* C21: if the text, its reasoning traces apart, holds no fenced block whose
\* trimmed content starts with { or [, extractJSON returns the last of its
\* bracketed spans, or the first if last is false, whatever prose stands
\* around them, stray closing brackets included
C21_SpanPerReturn ==
    (op = "extract" /\ JsonBlocks(CleanOf(extractArgs.parts)) = <<>>)
        => Selected(BracketSpans(CleanOf(extractArgs.parts)), extractArgs.last, extractRes)

\* the same for the texts where no closing bracket stands outside a span
C21_NoStrayCloser ==
    (op = "extract" /\ JsonBlocks(CleanOf(extractArgs.parts)) = <<>>
       /\ \A k \in 1..Len(extractArgs.parts) : extractArgs.parts[k].text # <<"}">>)
        => Selected(BracketSpans(CleanOf(extractArgs.parts)), extractArgs.last, extractRes)
RECURSIVE DepthAfter(_, _, _)
\* the value of depth after each character of the scan, from offset i on; st
\* is the record of depth, inString and escaped
DepthAfter(clean, i, st) ==
    IF i >= Len(clean) THEN <<>>
    ELSE LET char == clean[i + 1]
             next == IF st.escaped THEN [st EXCEPT !.escaped = FALSE]
                     ELSE IF char = "\\" /\ st.inString THEN [st EXCEPT !.escaped = TRUE]
                     ELSE IF char = "\"" THEN [st EXCEPT !.inString = ~st.inString]
                     ELSE IF st.inString THEN st
                     ELSE IF char \in {"{", "["} THEN [st EXCEPT !.depth = st.depth + 1]
                     ELSE IF char \in {"}", "]"} THEN [st EXCEPT !.depth = st.depth - 1]
                     ELSE st
         IN  <<next.depth>> \o DepthAfter(clean, i + 1, next)

\* the offset of the character that last took the depths d from zero to one
LastZeroToOne(d) ==
    LET before(k) == IF k = 1 THEN 0 ELSE d[k - 1]
        ups == {k \in 1..Len(d) : before(k) = 0 /\ d[k] = 1}
    IN  (CHOOSE k \in ups : \A h \in ups : h <= k) - 1

\* the partial-stream case on a text whose scan has the depths d
PartialLast(clean, d, result) ==
    (d # <<>> /\ d[Len(d)] > 0) => result = Drop(clean, LastZeroToOne(d))

\* C22: if step 2 collects no block from the text, its reasoning traces
\* apart, and the scan ends with depth > 0, extractJSON returns by default
\* the text from the opener that last took the depth from zero to one to
\* the end
C22_PartialStream ==
    (op = "extract" /\ extractArgs.last /\ CodeBlocks(CleanOf(extractArgs.parts)) = <<>>)
        => PartialLast(CleanOf(extractArgs.parts),
                       DepthAfter(CleanOf(extractArgs.parts), 0,
                                  [depth |-> 0, inString |-> FALSE, escaped |-> FALSE]),
                       extractRes)

\* prose, a complete array, then an object cut off inside its inner array
C22_Witness ==
    /\ op = "extract"
    /\ extractArgs.last
    /\ TextOf(extractArgs.parts) = <<"x", " ", "[", "2", "]", "{", "\"", "b", "\"", ":", "[", "3", ",">>
    /\ extractRes = <<"{", "\"", "b", "\"", ":", "[", "3", ",">>
\* the offsets of the characters { and [ of a text
Openers(clean) == {i \in 0..(Len(clean) - 1) : clean[i + 1] \in {"{", "["}}

\* steps 2 and 3 find no candidate in a text
NoCandidate(clean) ==
    /\ CodeBlocks(clean) = <<>>
    /\ FindCandidates(clean, 0, [depth |-> 0, start |-> -1, inString |-> FALSE,
                                 escaped |-> FALSE, jsonCandidates |-> <<>>]) = <<>>

\* the result is the text from its first { or [ on, trimmed
FromFirstOpener(clean, result) ==
    \E i \in Openers(clean) :
        /\ \A j \in Openers(clean) : i <= j
        /\ result = Trim(Drop(clean, i))

\* C23 as stated: when no candidate is found extractJSON returns the text
\* from its first { or [ on, trimmed, and when there is neither, the trimmed
\* input text
C23_FallbackOriginal ==
    (op = "extract" /\ NoCandidate(CleanOf(extractArgs.parts)))
        => IF Openers(CleanOf(extractArgs.parts)) # {}
           THEN FromFirstOpener(CleanOf(extractArgs.parts), extractRes)
           ELSE extractRes = Trim(TextOf(extractArgs.parts))

\* C23 amended: when no candidate is found extractJSON returns the text
\* without its reasoning traces from its first { or [ on, trimmed, and when
\* there is neither, that text trimmed
C23_Fallback ==
    (op = "extract" /\ NoCandidate(CleanOf(extractArgs.parts)))
        => IF Openers(CleanOf(extractArgs.parts)) # {}
           THEN FromFirstOpener(CleanOf(extractArgs.parts), extractRes)
           ELSE extractRes = Trim(CleanOf(extractArgs.parts))

\* an array inside a string that is never closed, then prose
C23_Witness ==
    /\ op = "extract"
    /\ TextOf(extractArgs.parts) = <<"\"", "[", "2", "]", "x", " ">>
    /\ extractRes = <<"[", "2", "]", "x">>

\* prose, then a reasoning trace that is cut off
C23_WitnessProse ==
    /\ op = "extract"
    /\ TextOf(extractArgs.parts) = <<"x", " ", "<", "t", "h", "i", "n", "k", ">", "x", " ">>
    /\ extractRes = <<"x">>
\* C24: repairJSON with extract: true returns what the repair returns for
\* the candidate extractJSON selects by default in the text without its
\* reasoning traces; so a trace followed by an object that is cut off after
\* a complete member value gives a fixed text that parses, closed by one }
C24_ExtractThenRepair ==
    (op = "repair" /\ extractArgs # <<>>)
        => /\ res = RepairText(ExtractClean(CleanOf(extractArgs.parts), TRUE))
           /\ (/\ Len(extractArgs.parts) >= 2
               /\ \A k \in 1..(Len(extractArgs.parts) - 1) : extractArgs.parts[k].kind = "trace"
               /\ extractArgs.parts[Len(extractArgs.parts)].text = <<"{", "\"", "c", "\"", ":", "t", "r", "u", "e">>)
              => (/\ res.fixed = <<"{", "\"", "c", "\"", ":", "t", "r", "u", "e", "}">>
                  /\ JSONparse(res.fixed).ok
                  /\ res.isPartial)

\* a trace, prose, then an object cut off after a complete member value
C24_Witness ==
    /\ op = "repair"
    /\ extractArgs # <<>>
    /\ TextOf(extractArgs.parts) = <<"<", "T", "h", "i", "n", "k", ">", "{", "9", "}", "<", "/", "T", "H", "I", "N", "K", ">", "x", " ", "{", "\"", "c", "\"", ":", "t", "r", "u", "e">>
    /\ res.fixed = <<"{", "\"", "c", "\"", ":", "t", "r", "u", "e", "}">>
    /\ res.data = <<"obj", (<<"c">> :> <<"bool", TRUE>>)>>
\* C25: for every pre-processed text the kernel returns the fixed text of
\* the in-process engine
C25_SameFixed == op = "both" => fixedStr = res.fixed

\* the same for the texts that are not empty and hold no comma and no
\* backslash
C25_SameFixedPlain ==
    (op = "both" /\ raw # <<>> /\ \A j \in 1..Len(raw) : raw[j] \notin {",", "\\"})
        => fixedStr = res.fixed

\* one character of a scan that records every opener; u is the record of
\* the closers expected, in_string and escaped
OpenChar(u, c) ==
    IF u.escaped THEN [u EXCEPT !.escaped = FALSE]
    ELSE IF c = "\\" THEN [u EXCEPT !.escaped = TRUE]
    ELSE IF c = "\"" THEN [u EXCEPT !.in_string = ~u.in_string]
    ELSE IF u.in_string THEN u
    ELSE IF c = "{" THEN [u EXCEPT !.closers = Append(@, "}")]
    ELSE IF c = "[" THEN [u EXCEPT !.closers = Append(@, "]")]
    ELSE IF u.closers # <<>> /\ u.closers[Len(u.closers)] = c
    THEN [u EXCEPT !.closers = Take(@, Len(@) - 1)]
    ELSE u

RECURSIVE OpenLoop(_, _, _, _)
OpenLoop(text, lo, hi, u) ==
    IF lo > hi THEN u
    ELSE IF lo = hi THEN OpenChar(u, text[lo + 1])
    ELSE CHOOSE after \in {OpenLoop(text, (lo + hi) \div 2 + 1, hi, half) :
                              half \in {OpenLoop(text, lo, (lo + hi) \div 2, u)}} : TRUE

\* what is open at the end of a text
OpenAtEnd(text) ==
    OpenLoop(text, 0, Len(text) - 1, [closers |-> <<>>, in_string |-> FALSE, escaped |-> FALSE])

\* a text followed by the quote and the closers that close what u says is
\* open, the innermost first
Closed(text, u) ==
    text \o (IF u.in_string THEN <<"\"">> ELSE <<>>)
         \o [j \in 1..Len(u.closers) |-> u.closers[Len(u.closers) - j + 1]]

\* C26: the kernel copies every character of its input and closes every
\* structure the input leaves open, whatever the depth
C26_NoTruncation == op = "kernel" => fixedStr = Closed(raw, OpenAtEnd(raw))

\* the same for the texts that leave at most StackSize structures open
C26_ShallowClosed ==
    (op = "kernel" /\ Len(OpenAtEnd(raw).closers) <= StackSize)
        => fixedStr = Closed(raw, OpenAtEnd(raw))
\* C27: a scanText call repeated with the same text, categories, allow-list
\* entries and custom rules returns an equal result, whatever call was made
\* between the two
C27_SameResult == op = "again" => scanRes2 = scanRes

\* the same when no RegExp of the allow list carries the g flag
C27_SameResultNoFlag ==
    (op = "again" /\ \A p \in 1..Len(scanArgs.allow) :
                        "regexp" \in DOMAIN scanArgs.allow[p]
                            => "g" \notin scanArgs.allow[p].regexp.flags)
        => scanRes2 = scanRes
\* the response a step of onmessage delivered
Delivered == CHOOSE e \in responses : e \notin responses'

\* C28: the transport settles each request at most once and only through its
\* own id: every promise has at most one call of its resolve or reject, a
\* call made by a response carries the id of that response, and delivering a
\* response whose id is not pending changes neither the pending entries, nor
\* the timers, nor any promise
C28_SettledOnce ==
    /\ [](\A id \in DOMAIN settled :
            /\ Len(settled[id]) <= 1
            /\ \A k \in 1..Len(settled[id]) : settled[id][k].id = id)
    /\ [][(responses' # responses /\ responses' \subseteq responses
            /\ Delivered.id \notin pendingRequests)
          => UNCHANGED <<pendingRequests, timers, settled>>]_vars

\* request 1 timed out, then its answer was delivered and discarded; request
\* 2 was rejected by a worker error and its answer was discarded as well
C28_Witness ==
    /\ nextId >= 2
    /\ settled[1] = <<Settle("reject", "timeout", 1)>>
    /\ settled[2] = <<Settle("reject", "error", 2)>>
    /\ posted = {}
    /\ responses = {}
\* the repairJson call a step settled
Settled == CHOOSE q \in awaited : q \notin awaited'

\* a step that settles a repairJson call
Settles == awaited' # awaited /\ awaited' \subseteq awaited

SameOutcome ==
    /\ hook'.data = hook.data
    /\ hook'.isValid = hook.isValid
    /\ hook'.schemaErrors = hook.schemaErrors

\* C29: useStreamingJson applies a repair result only if it belongs to its
\* current input: a call settling for a text that is no longer the input (the
\* input became a longer prefix, another stream, or empty) leaves data,
\* isValid and schemaErrors as they were
C29_OnlyCurrentInput ==
    [][(Settles /\ Settled.rawString # rawString) => SameOutcome]_vars

\* the same while the current input is not empty: the request id discards
\* the results of all earlier inputs
C29_OnlyCurrentInputNonEmpty ==
    [][(Settles /\ Settled.rawString # rawString /\ rawString # <<>>) => SameOutcome]_vars

\* a step that calls onComplete
CallsOnComplete ==
    /\ Len(callbacks') > Len(callbacks)
    /\ callbacks'[Len(callbacks')].name = "onComplete"

\* C30: isComplete becomes true, and onComplete is called, only for a repair
\* result that is valid and not partial: never for a text that needed
\* structural completion
C30_CompleteOnlyWhole ==
    [][((hook'.isComplete /\ ~hook.isComplete) \/ CallsOnComplete)
       => /\ Settles
          /\ LET result == RepairJsonResult(Settled.rawString)
             IN  result.isValid /\ ~result.isPartial]_vars

\* the same without the partial flag: completion is declared only by a
\* result that parses, and whose data passes the schema when there is one
C30_CompleteOnlyValid ==
    [][((hook'.isComplete /\ ~hook.isComplete) \/ CallsOnComplete)
       => /\ Settles
          /\ hook'.isValid
          /\ hook'.schemaErrors = <<>>
          /\ hook'.isComplete
          /\ CallsOnComplete
          /\ RepairJsonResult(Settled.rawString).isValid]_vars
\* the initial data of the hooks without fallback, stub or default values
InitialData == <<"obj", <<>>>>

\* the parsed values of the inputs whose repair succeeds
ParsedValues ==
    { RepairJsonResult(t).data : t \in { u \in HookTexts \ {<<>>} :
                                           /\ RepairJsonResult(u).isValid
                                           /\ RepairJsonResult(u).data # <<"null">> } }

\* C31: the streaming hook exposes a valid object at every render: its data
\* is the initial value or the parsed value of a successfully repaired
\* input, and a repair that yields no parsed value leaves data as it was,
\* never null (here for useGuard)
C31_ValidObject ==
    guard # <<>> => guard.data \in {InitialData} \cup ParsedValues

\* the same for useStreamingJson, whose data is the parsed value or what the
\* schema made of it
C31_ValidObjectStreamingJson ==
    hook # <<>> =>
        hook.data \in {InitialData} \cup ParsedValues
                      \cup { safeParse(SchemaA, v).data :
                               v \in { u \in ParsedValues : safeParse(SchemaA, u).success } }

\* useStreamingJson leaves data alone when a repair yields no parsed value
C31_NoValueNoChange ==
    [][(Settles /\ ~Truthy(RepairJsonResult(Settled.rawString).data))
       => hook'.data = hook.data]_vars
\* the state of the scan before the character at offset i of the text s
Before(s, i) == Scan(Take(s, i))

\* the state after it
After(s, i) == Scan(Take(s, i + 1))

Brackets == {"{", "}", "[", "]"}

\* C32: during the repair scan a bracket inside a string neither pushes nor
\* pops the closer stack, a quote ends the string only when no escape
\* consumes it, a backslash inside a string consumes exactly the next
\* character whatever it is, and a backslash outside a string escapes nothing
C32_StringsOpaque ==
    op = "repair" =>
        \A i \in 0..(Len(Preprocessed) - 1) :
            LET a == Before(Preprocessed, i)
                b == After(Preprocessed, i)
                c == Preprocessed[i + 1]
            IN  /\ a.escaped => a.inString
                /\ a.inString /\ c \in Brackets => b.stack = a.stack /\ b.inString
                /\ a.inString /\ c = "\"" => (b.inString = a.escaped)
                /\ a.inString /\ ~a.escaped /\ c # "\"" => b.inString
                /\ a.inString /\ ~a.escaped => (b.escaped = (c = "\\"))
                /\ a.escaped => ~b.escaped /\ b.inString /\ b.stack = a.stack
                /\ ~a.inString => ~b.escaped
                /\ ~a.inString /\ c = "\\" => b = a

\* a string holding an escaped quote and cut before its end: the escaped
\* quote did not end it
C32_Witness ==
    /\ op = "repair"
    /\ raw = <<"\"", "\\", "\"">>
    /\ Before(Preprocessed, 2).escaped
    /\ Scan(Preprocessed).inString
    /\ res.fixed = <<"\"", "\\", "\"", "\"">>

\* a bracket inside a string and a backslash outside one
C32_WitnessBracket ==
    /\ op = "repair"
    /\ raw = <<"\\", "\"", "[">>
    /\ ~Before(Preprocessed, 1).escaped
    /\ Scan(Preprocessed).stack = <<"\"">>
    /\ res.fixed = <<"\\", "\"", "[", "\"">>
\* the two maps and the counters of the PIIVault
Stored == <<vault, reverseMap, counters>>

\* C33: unmask is read-only on the vault: an unmask call leaves the
\* token-to-value map, the value-to-token map and all counters unchanged, and
\* only mask and flush change them
C33_UnmaskReadOnly ==
    [][/\ op' \in {"unmask", "reply"} => Stored' = Stored
       /\ Stored' # Stored => op' \in {"mask", "flush"}]_vars

\* an unmask call on a vault that holds an entry and whose counters are not
\* zero restored a value
C33_Witness ==
    /\ op \in {"unmask", "reply"}
    /\ vault # <<>>
    /\ \E ty \in Types : counters[ty] > 0
    /\ ret # arg
\* the text before its brackets are closed: the input with its open string
\* closed, or else without its trailing comma
Kept(text) ==
    IF Scan(text).inString THEN Append(text, "\"")
    ELSE ReplaceFirst(text, TrailingCommaRE, <<>>)

\* the number of patches of a type
PatchCount(ps, type) == Cardinality({k \in 1..Len(ps) : ps[k].type = type})

\* C34: in every result of repairJSON isPartial is true exactly when patches
\* is not empty, and there are as many missing_brace patches as closers
\* appended to the text (none for the empty input, whose result is {})
C34_PatchesTellPartial ==
    op = "repair" /\ extractArgs = <<>> =>
        /\ res.isPartial = (res.patches # <<>>)
        /\ IF Preprocessed = <<>>
           THEN res.patches = <<>> /\ res.fixed = <<"{", "}">>
           ELSE /\ Take(res.fixed, Len(Kept(Preprocessed))) = Kept(Preprocessed)
                /\ \A k \in (Len(Kept(Preprocessed)) + 1)..Len(res.fixed) :
                        res.fixed[k] \in {"}", "]"}
                /\ PatchCount(res.patches, "missing_brace")
                     = Len(res.fixed) - Len(Kept(Preprocessed))

\* an array in an object, both left open: two closers, two patches
C34_Witness ==
    /\ op = "repair"
    /\ raw = <<"{", "[", "1">>
    /\ res.fixed = <<"{", "[", "1", "]", "}">>
    /\ res.isPartial
    /\ PatchCount(res.patches, "missing_brace") = 2
    /\ Len(res.patches) = 2
\* the same for repairJSON with the extract option
C34_ExtractPatches ==
    op = "repair" /\ extractArgs # <<>> => res.isPartial = (res.patches # <<>>)

\* the state the scan ends in on a closed text
ScanClosed == [stack |-> <<>>, inString |-> FALSE, escaped |-> FALSE]

\* C35: the repaired text is closed: the repair scan run over
\* repairJSON(x).fixed ends outside any string, not escaped, with an empty
\* closer stack, for every input x
C35_FixedIsClosed ==
    op = "repair" /\ extractArgs = <<>> => Scan(res.fixed) = ScanClosed

\* the same for the inputs that do not end right after a backslash inside a
\* string
C35_FixedIsClosedUnescaped ==
    op = "repair" /\ extractArgs = <<>> /\ ~Scan(Preprocessed).escaped
        => Scan(res.fixed) = ScanClosed
\* the requests posted so far
PostedIds == 1..nextId

\* C36: every request posted to the worker eventually settles (by its
\* response, by a worker error or by its timeout); when it settles its entry
\* leaves pendingRequests and its timer is no longer armed, so that
\* pendingRequests holds exactly the requests not settled yet
C36_EventuallySettled ==
    /\ [](/\ pendingRequests = {id \in PostedIds : settled[id] = <<>>}
          /\ timers = pendingRequests)
    /\ \A id \in RequestIds :
          (id \in pendingRequests)
             ~> (settled[id] # <<>> /\ id \notin pendingRequests /\ id \notin timers)

\* the three requests were settled in the three ways, and nothing is pending
C36_Witness ==
    /\ nextId = 3
    /\ pendingRequests = {}
    /\ timers = {}
    /\ {settled[id][1].by : id \in PostedIds} = {"message", "error", "timeout"}
\* a step that calls onError
CallsOnError ==
    /\ Len(callbacks') > Len(callbacks)
    /\ callbacks'[Len(callbacks')].name = "onError"

\* the result of the text is a finished document that passes the schema
Finished(text) ==
    LET result == RepairJsonResult(text)
    IN  /\ result.isValid
        /\ ~result.isPartial
        /\ Truthy(result.data)
        /\ hook.schema # NoSchema => safeParse(hook.schema, result.data).success

\* a step in which the awaited call of the latest request resolves
ResolvesCurrent ==
    /\ Settles
    /\ ~CallsOnError
    /\ Settled.currentRequestId = requestIdRef

\* no second call of onComplete within a stream
NoSecondCall == CallsOnComplete => ~hook.fired

\* a stream that becomes complete and has not fired yet fires
FiresForItself ==
    (ResolvesCurrent /\ Finished(Settled.rawString) /\ ~hook.fired) => CallsOnComplete

\* C37: onComplete is called exactly once per stream: once it was called,
\* later chunks of the same growing stream do not call it again, and a later
\* stream that becomes complete after an earlier one did calls it again, for
\* itself
C37_OncePerStream == [][NoSecondCall /\ FiresForItself]_vars

\* the first half alone: at most one call per stream
C37_AtMostOncePerStream == [][NoSecondCall]_vars
\* the entries a mask step added to the vault
Minted == {vault'[j] : j \in (Len(vault) + 1)..Len(vault')}

\* a step of mask
Masks == op' = "mask" /\ masks' = masks + 1

\* C38: every vault entry a mask call creates has its token in the text the
\* call returns, and every counter advances by the number of those tokens:
\* no token is minted for a match inside text that an earlier category or an
\* earlier match already tokenized
C38_MintedAppear ==
    [][Masks =>
          /\ \A e \in Minted : Occurs(e[1], ret')
          /\ \A ty \in Types :
                counters'[ty] - counters[ty]
                  = Cardinality({e \in Minted : HasPrefix(e[1], ty) /\ Occurs(e[1], ret')})]_vars

\* the entries whose token is not in the text returned are entries for a match
\* that an earlier replacement of the same call destroyed: the match overlaps
\* a match of the card or the address pattern, or holds the value of another
\* entry of the vault
C38_HiddenWereReplaced ==
    [][Masks =>
          \A text \in {arg'} :
          \A e \in Minted :
              ~Occurs(e[1], ret')
                 => \/ \E o \in Range(vault') : o # e /\ Occurs(o[2], e[2])
                    \/ \E p \in Range(SpansOf("PHONE", text)) :
                          /\ Matched(text, p) = e[2]
                          /\ \E m \in Range(SpansOf("CREDIT_CARD", text))
                                        \cup Range(SpansOf("IPV4", text)) :
                                p.start < m.end /\ m.start < p.end]_vars

\* the loads of the plugin n that have not settled
Loading(n) ==
    {p \in 1..Len(plugins.promises) :
        plugins.promises[p].name = n /\ plugins.promises[p].state \in InFlight}

\* the plugin n is pending: the map of the init promises has its name
Pending(n) == MapHas(plugins.pluginInitPromises, n)

\* the last load of the plugin n failed
Failed(n) ==
    \E p \in 1..Len(plugins.promises) :
        /\ plugins.promises[p].name = n
        /\ plugins.promises[p].state = "rejected"
        /\ \A q \in (p + 1)..Len(plugins.promises) : plugins.promises[q].name # n

\* as long as no UNLOAD_PLUGIN came for a name, at most one load of it is in
\* progress, and none while it is loaded
SingleFlight ==
    \A n \in PluginNames \ plugins.unloaded :
        /\ Cardinality(Loading(n)) <= 1
        /\ MapHas(plugins.loadedPlugins, n) => Loading(n) = {}

\* a name whose last load failed is neither loaded nor pending
FailedIsForgotten ==
    \A n \in PluginNames \ plugins.unloaded :
        Failed(n) => ~MapHas(plugins.loadedPlugins, n) /\ ~Pending(n)

\* a LOAD_PLUGIN for a name whose last load failed starts a load again
LoadsAgain ==
    \A n \in PluginNames \ plugins.unloaded :
        (Failed(n) /\ plugins'.message = [type |-> "LOAD_PLUGIN", name |-> n]
                   /\ plugins'.messages = plugins.messages + 1)
            => Len(plugins'.promises) = Len(plugins.promises) + 1

\* C39: plugin loading is single-flight and can be retried: interleaved
\* LOAD_PLUGIN messages for a name have at most one load of it in progress and
\* none while it is loaded, and after a failed load the name is neither loaded
\* nor pending, so that the next LOAD_PLUGIN for it starts a load again
C39_SingleFlightRetryable ==
    /\ [](SingleFlight /\ FailedIsForgotten)
    /\ [][LoadsAgain]_vars

\* the first part of C39 alone
C39_SingleFlight == SingleFlight

\* the second part of C39 for the loads that fail after an await: a name is
\* left pending on a rejected promise only by a load that failed before
\* loadPlugin stored its promise
C39_FailedLaterIsForgotten ==
    \A n \in PluginNames :
        Pending(n) /\ plugins.promises[MapGet(plugins.pluginInitPromises, n)].state = "rejected"
            => plugins.promises[MapGet(plugins.pluginInitPromises, n)].sync

\* a load that failed after an await is tried again by the next LOAD_PLUGIN
C39_RetriedAfterAwait ==
    /\ plugins.messages = 2
    /\ Len(plugins.promises) = 2
    /\ plugins.promises[1].state = "rejected"
    /\ ~plugins.promises[1].sync
    /\ plugins.promises[2].name = plugins.promises[1].name
    /\ plugins.unloaded = {}

\* a second LOAD_PLUGIN awaited the load of the first and both were answered
C39_Shared ==
    /\ plugins.messages = 2
    /\ Len(plugins.promises) = 1
    /\ plugins.promises[1].state = "fulfilled"
    /\ Cardinality({r \in plugins.posted : r.success}) = 2
    /\ \E r \in plugins.posted : r.cached
    /\ Len(plugins.inits) = 1

\* the indices of OUTPUT the call wrote after its loop
WrittenAfterLoop ==
    Range(kernel.writes.quote) \cup Range(kernel.writes.closers) \cup {kernel.writes.NUL}

\* C40: repair_json never writes outside its output buffer: every index of
\* OUTPUT it writes, those of the appended closing quote, of the appended
\* closers and of the terminating NUL among them, is less than BUFFER_SIZE,
\* however long the input
C40_WritesInside ==
    op = "kernel" =>
        /\ kernel.writes.loop <= BUFFER_SIZE
        /\ \A i \in WrittenAfterLoop : i < BUFFER_SIZE

\* the loop alone stays inside the buffer, and leaves its last byte free
C40_LoopInside == op = "kernel" => kernel.writes.loop <= BUFFER_SIZE - 1

\* a text that is shorter than the buffer by the size of the stack and two
\* bytes more is repaired inside the buffer
C40_ShorterInside ==
    (op = "kernel" /\ RunsLen(kernel.input) <= BUFFER_SIZE - StackSize - 2)
        => \A i \in WrittenAfterLoop : i < BUFFER_SIZE

\* a text longer than the buffer was cut by the loop and closed after it
C40_Cut ==
    /\ op = "kernel"
    /\ RunsLen(kernel.input) > BUFFER_SIZE
    /\ kernel.writes.loop = BUFFER_SIZE - 1
    /\ kernel.writes.closers # <<>>

\* a short text with closers to append
C40_Short ==
    /\ op = "kernel"
    /\ RunsLen(kernel.input) <= BUFFER_SIZE - StackSize - 2
    /\ kernel.writes.quote # <<>>
    /\ kernel.writes.closers # <<>>

\* on the texts of the repair engine the indices written are those of the
\* characters of the text the kernel returns, and of the NUL after them
C40_IndicesOfFixed ==
    (op = "kernel" /\ raw \notin DeepInputs)
        => /\ KernelWrites(RunsOf(raw)).NUL = Len(KernelClose(KernelScan(raw)))
           /\ KernelWrites(RunsOf(raw)).loop = Len(KernelScan(raw).OUTPUT)

=============================================================================
